---- MODULE Spec2Model ----
(***************************************************************************)
(* Behavior tree interpreter (btree.js): the text parser, the node model,  *)
(* the tick engine with action-activation callbacks, and the JSON          *)
(* snapshot / fromJson reconstruction.                                     *)
(*                                                                         *)
(* Representation.  JavaScript objects live in a heap: tree.nodes is a     *)
(* sequence of node records and a node reference is an index into it       *)
(* (0 is null).  Nodes are allocated in the order the code constructs      *)
(* them.  A JavaScript string is a sequence of one-character strings.      *)
(* An error message is the sequence of its string fragments (<<>> is       *)
(* null).                                                                  *)
(***************************************************************************)
EXTENDS Integers, Sequences, FiniteSets, TLC

\* ---------------------------------------------------------------- constants
FAILED == 0
SUCCESS == 1
RUNNING == 2
NOT_FOUND == 0 - 1
\* no value (a tick() that has not returned)
Undefined == 0 - 2
\* in place of a returned value: the call threw
Thrown == 0 - 3

FALLBACK == "fallback"
SEQUENCE == "sequence"
PARALLEL == "parallel"
ACTION_KIND == "action"
CONDITION == "condition"

Statuses == {FAILED, SUCCESS, RUNNING}

\* null reference / null message
NullNode == 0
NullError == << >>

\* ------------------------------------------------------------------ bounds
\* largest number of children of the generated one-level trees
MaxKids == 2
\* largest number of callback subscriptions made in one run
MaxSubs == 1
\* largest number of pieces an input text of the parser is assembled from
MaxPieces == 3
\* the most lines of an indentation text
MaxLines == 5
\* the nesting of tree.tick() calls inside callbacks at which the call stack
\* is taken to overflow
MaxDepth == 2
\* the most digits of a generated parallel threshold
MaxDigits == 2
\* the most HTTP requests the server receives
MaxRequests == 3

\* ------------------------------------------------------------------ helpers
RECURSIVE SeqSum(_)
SeqSum(s) == IF s = << >> THEN 0 ELSE Head(s) + SeqSum(Tail(s))

Range(s) == {s[k] : k \in DOMAIN s}

\* ---------------------------------------------------------------- Node model
\* mutant: the Node constructor gives every node a children array
NewNodeMutant(name, kind, hasChildren) ==
    [name |-> name, kind |-> kind,
     hasChildren |-> TRUE, children |-> << >>,
     line |-> 0,
     active |-> FALSE, wasActive |-> FALSE,
     nodeStatus |-> FAILED, hasNot |-> FALSE,
     successCount |-> 0,
     actionActivationCallback |-> << >>]

\* new Node(name, kind, children): children === null is hasChildren = FALSE
NewNode(name, kind, hasChildren) ==
    [name |-> name, kind |-> kind,
     hasChildren |-> hasChildren, children |-> << >>,
     line |-> 0,
     active |-> FALSE, wasActive |-> FALSE,
     nodeStatus |-> FAILED, hasNot |-> FALSE,
     successCount |-> 0,
     actionActivationCallback |-> << >>]

\* mutant: status() forgets the negation flag
StatusMutant(nd) == nd.nodeStatus

\* Node.status()
Status(nd) ==
    IF nd.hasNot
    THEN CASE nd.nodeStatus = SUCCESS -> FAILED
           [] nd.nodeStatus = FAILED -> SUCCESS
           [] OTHER -> nd.nodeStatus
    ELSE nd.nodeStatus

\* Node.setStatus(newStatus)
SetStatus(nd, newStatus) == [nd EXCEPT !.nodeStatus = newStatus]

\* mutant: setActive() records wasActive whenever the node was active before
NodeSetActiveMutant(nd, isActive) ==
    LET previouslyActive == nd.active
    IN [nd EXCEPT !.active = isActive,
                  !.wasActive = IF previouslyActive THEN TRUE ELSE @]

\* mutant: setActive() clears wasActive when the node does not go inactive
NodeSetActiveResets(nd, isActive) ==
    LET previouslyActive == nd.active
    IN [nd EXCEPT !.active = isActive,
                  !.wasActive = previouslyActive /\ ~isActive]

\* Node.setActive(isActive)
NodeSetActive(nd, isActive) ==
    LET previouslyActive == nd.active
    IN [nd EXCEPT !.active = isActive,
                  !.wasActive = IF previouslyActive /\ ~isActive THEN TRUE ELSE @]

\* the factories fallback(), sequence(), parallel(n), action(name, cb, status),
\* condition(name, hasNot, status)
FallbackName == <<"?">>
SequenceName == <<"\\u2192">>
ParallelName == <<"\\u21C9">>

fallback == NewNode(FallbackName, FALLBACK, TRUE)
sequence == NewNode(SequenceName, SEQUENCE, TRUE)
parallel(successCount) ==
    [NewNode(ParallelName, PARALLEL, TRUE) EXCEPT !.successCount = successCount]
\* mutant: the Action constructor forgets this.setStatus(status)
actionMutant(name, status) == NewNode(name, ACTION_KIND, FALSE)

action(name, status) ==
    SetStatus(NewNode(name, ACTION_KIND, FALSE), status)
\* mutant: the Condition constructor forgets the hasNot argument
conditionMutant(name, hasNot, status) ==
    SetStatus(NewNode(name, CONDITION, FALSE), status)

condition(name, hasNot, status) ==
    SetStatus([NewNode(name, CONDITION, FALSE) EXCEPT !.hasNot = hasNot], status)

\* ---------------------------------------------------------------- tick engine
(***************************************************************************)
(* An execution state E carries the tree and what one operation has done   *)
(* so far: E.tree, E.log (the callback invocations, in order), E.ticked    *)
(* (the nodes whose tick() was entered, in order), E.returned (the tick()  *)
(* calls that have returned, in order, with the value returned and the     *)
(* nesting of tree.tick() calls they were made at) and E.ret               *)
(* (the value returned by the tick() that returned last).                  *)
(***************************************************************************)
AnyActionActivation == "onAnyActionActivation"
\* the callback of the tests that only records the node it is given
Handlers == {"h1"}
\* the callback of the README sample and the callback of the test 'notify
\* about action activation only once!'
EatHandler == "eat"
RetickHandler == "retick"
\* a callback that sets the condition, deactivates the tree and ticks it
CycleHandler == "cycle"

HungerName == <<"h", "a", "v", "e", " ", "h", "u", "n", "g", "e", "r">>
EatName == <<"e", "a", "t">>
C1Name == <<"c", "1">>

RECURSIVE Tick(_, _)
RECURSIVE Deactivate(_, _)
RECURSIVE setConditionStatus(_, _, _)
RECURSIVE setActionStatus(_, _, _)

\* BehaviorTree.tick() called from inside a callback; past MaxDepth nested
\* calls the engine throws a RangeError (call stack exhausted)
TreeTick(E) ==
    IF E.tree.root = NullNode THEN E
    ELSE IF E.depth >= MaxDepth THEN [E EXCEPT !.thrown = TRUE]
    ELSE LET E1 == Tick([E EXCEPT !.depth = @ + 1], E.tree.root)
         IN [E1 EXCEPT !.depth = E.depth]

\* tree.root.deactivate(); tree.tick() called from inside a callback, with
\* the same limit on the nesting
TreeCycle(E) ==
    IF E.tree.root = NullNode THEN E
    ELSE IF E.depth >= MaxDepth THEN [E EXCEPT !.thrown = TRUE]
    ELSE LET D == Deactivate([E EXCEPT !.depth = @ + 1], E.tree.root)
             E1 == IF D.thrown THEN D ELSE Tick(D, D.tree.root)
         IN [E1 EXCEPT !.depth = E.depth]

\* a subscribed user callback, called with the action node n
Handler(E, h, n) ==
    LET E1 == [E EXCEPT !.log = Append(@, [cb |-> h, node |-> n,
                                           active |-> E.tree.nodes[n].active,
                                           depth |-> E.depth])]
    IN CASE h = EatHandler ->
              IF E1.tree.nodes[n].name = EatName /\ E1.tree.nodes[n].active
              THEN [E1 EXCEPT !.tree = setActionStatus(
                                           setConditionStatus(@, HungerName, FAILED),
                                           EatName, SUCCESS)]
              ELSE E1
         [] h = RetickHandler ->
              TreeTick([E1 EXCEPT !.tree = setConditionStatus(@, C1Name, SUCCESS)])
         [] h = CycleHandler ->
              TreeCycle([E1 EXCEPT !.tree = setConditionStatus(@, C1Name, SUCCESS)])
         [] OTHER -> E1

RECURSIVE RunCallbacks(_, _, _, _)
\* array.forEach(c => c(actionNode)); the closure onAnyActionActivation of the
\* BehaviorTree constructor forwards to tree.actionActivationCallbacks
RunCallbacks(E, cbs, k, n) ==
    IF k > Len(cbs) \/ E.thrown THEN E
    ELSE LET E1 == IF cbs[k] = AnyActionActivation
                   THEN RunCallbacks(E, E.tree.actionActivationCallbacks, 1, n)
                   ELSE Handler(E, cbs[k], n)
         IN RunCallbacks(E1, cbs, k + 1, n)

\* mutant: the callbacks run only when the action goes from inactive to active
ActionSetActiveMutant(E, n, isActive) ==
    LET E1 == [E EXCEPT !.tree.nodes[n] = NodeSetActive(@, isActive)]
    IN IF isActive /\ ~E.tree.nodes[n].active
       THEN RunCallbacks(E1, E1.tree.nodes[n].actionActivationCallback, 1, n)
       ELSE E1

\* Action.setActive(isActive)
ActionSetActive(E, n, isActive) ==
    LET E1 == [E EXCEPT !.tree.nodes[n] = NodeSetActive(@, isActive)]
    IN RunCallbacks(E1, E1.tree.nodes[n].actionActivationCallback, 1, n)

\* this.setActive(isActive), dispatched on the class of the node
SetActive(E, n, isActive) ==
    IF E.tree.nodes[n].kind = ACTION_KIND
    THEN ActionSetActive(E, n, isActive)
    ELSE [E EXCEPT !.tree.nodes[n] = NodeSetActive(@, isActive)]

\* mutant: tick() reads the status before it activates the node
NodeTickMutant(E, n) ==
    LET s == Status(E.tree.nodes[n])
        E1 == SetActive(E, n, TRUE)
    IN IF E1.thrown THEN E1 ELSE [E1 EXCEPT !.ret = s]

\* Node.tick(), used by Condition and Action
NodeTick(E, n) ==
    LET E1 == SetActive(E, n, TRUE)
    IN IF E1.thrown THEN E1 ELSE [E1 EXCEPT !.ret = Status(E1.tree.nodes[n])]

\* mutant: a RUNNING child does not stop the Fallback
FallbackStopsMutant(s) == s = SUCCESS

\* Fallback.tick(): if (s == RUNNING || s == SUCCESS) return
FallbackStops(s) == s = RUNNING \/ s = SUCCESS

\* mutant: a RUNNING child does not stop the Sequence
SequenceStopsMutant(s) == s = FAILED

\* Sequence.tick(): if (s == RUNNING || s == FAILED) return
SequenceStops(s) == s = RUNNING \/ s = FAILED

RECURSIVE FallbackLoop(_, _, _)
RECURSIVE SequenceLoop(_, _, _)
RECURSIVE ParallelLoop(_, _, _, _, _)

\* mutant: the Fallback stops at a RUNNING or SUCCESS child without taking
\* the child's result as its status
FallbackLoopMutant(E, n, i) ==
    IF i > Len(E.tree.nodes[n].children)
    THEN LET E1 == [E EXCEPT !.tree.nodes[n] = SetStatus(@, FAILED)]
         IN [E1 EXCEPT !.ret = Status(E1.tree.nodes[n])]
    ELSE LET E1 == Tick(E, E.tree.nodes[n].children[i])
             s == E1.ret
             E2 == [E1 EXCEPT !.tree.nodes[n] = SetStatus(@, s)]
         IN IF E1.thrown THEN E1
            ELSE IF FallbackStops(s)
            THEN [E1 EXCEPT !.ret = Status(E1.tree.nodes[n])]
            ELSE FallbackLoop(E2, n, i + 1)

\* the for loop of Fallback.tick() from child i on
FallbackLoop(E, n, i) ==
    IF i > Len(E.tree.nodes[n].children)
    THEN LET E1 == [E EXCEPT !.tree.nodes[n] = SetStatus(@, FAILED)]
         IN [E1 EXCEPT !.ret = Status(E1.tree.nodes[n])]
    ELSE LET E1 == Tick(E, E.tree.nodes[n].children[i])
             s == E1.ret
             E2 == [E1 EXCEPT !.tree.nodes[n] = SetStatus(@, s)]
         IN IF E1.thrown THEN E1
            ELSE IF FallbackStops(s)
            THEN [E2 EXCEPT !.ret = Status(E2.tree.nodes[n])]
            ELSE FallbackLoop(E2, n, i + 1)

\* Fallback.tick()
FallbackTick(E, n) == FallbackLoop(SetActive(E, n, TRUE), n, 1)

\* the for loop of Sequence.tick() from child i on
SequenceLoop(E, n, i) ==
    IF i > Len(E.tree.nodes[n].children)
    THEN LET E1 == [E EXCEPT !.tree.nodes[n] = SetStatus(@, SUCCESS)]
         IN [E1 EXCEPT !.ret = Status(E1.tree.nodes[n])]
    ELSE LET E1 == Tick(E, E.tree.nodes[n].children[i])
             s == E1.ret
             E2 == [E1 EXCEPT !.tree.nodes[n] = SetStatus(@, s)]
         IN IF E1.thrown THEN E1
            ELSE IF SequenceStops(s)
            THEN [E2 EXCEPT !.ret = Status(E2.tree.nodes[n])]
            ELSE SequenceLoop(E2, n, i + 1)

\* Sequence.tick()
SequenceTick(E, n) == SequenceLoop(SetActive(E, n, TRUE), n, 1)

\* mutant: the FAILED test is off by one
ParallelStatusMutant(succeeded, failed, kidCount, successCount) ==
    IF succeeded >= successCount THEN SUCCESS
    ELSE IF failed >= kidCount - successCount THEN FAILED
    ELSE RUNNING

\* mutant: the threshold is capped at the number of children
ParallelStatusCapped(succeeded, failed, kidCount, successCount) ==
    LET needed == IF successCount > kidCount THEN kidCount ELSE successCount
    IN IF succeeded >= needed THEN SUCCESS
       ELSE IF failed > kidCount - needed THEN FAILED
       ELSE RUNNING

\* the status a Parallel takes from its counters
ParallelStatus(succeeded, failed, kidCount, successCount) ==
    IF succeeded >= successCount THEN SUCCESS
    ELSE IF failed > kidCount - successCount THEN FAILED
    ELSE RUNNING

\* the for loop of Parallel.tick() from child i on, and its tail
ParallelLoop(E, n, i, succeeded, failed) ==
    IF i > Len(E.tree.nodes[n].children)
    THEN LET kidCount == Len(E.tree.nodes[n].children)
             st == ParallelStatus(succeeded, failed, kidCount,
                                  E.tree.nodes[n].successCount)
         IN [E EXCEPT !.tree.nodes[n] = SetStatus(@, st), !.ret = st]
    ELSE LET E1 == Tick(E, E.tree.nodes[n].children[i])
             s == E1.ret
         IN IF E1.thrown THEN E1
            ELSE ParallelLoop(E1, n, i + 1,
                              IF s = SUCCESS THEN succeeded + 1 ELSE succeeded,
                              IF s = FAILED THEN failed + 1 ELSE failed)

\* Parallel.tick()
ParallelTick(E, n) == ParallelLoop(SetActive(E, n, TRUE), n, 1, 0, 0)

\* node.tick(), dispatched on the class of the node
Tick(E, n) ==
    LET E0 == [E EXCEPT !.ticked = Append(@, n)]
        k == E.tree.nodes[n].kind
        E1 == CASE k = FALLBACK -> FallbackTick(E0, n)
                [] k = SEQUENCE -> SequenceTick(E0, n)
                [] k = PARALLEL -> ParallelTick(E0, n)
                [] OTHER -> NodeTick(E0, n)
    IN IF E1.thrown THEN E1
       ELSE [E1 EXCEPT !.returned = Append(@, [node |-> n, value |-> E1.ret,
                                               depth |-> E1.depth])]

RECURSIVE DeactivateLoop(_, _, _)
\* the for loop of Node.deactivate() from child i on
DeactivateLoop(E, n, i) ==
    IF i > Len(E.tree.nodes[n].children) \/ E.thrown THEN E
    ELSE DeactivateLoop(Deactivate(E, E.tree.nodes[n].children[i]), n, i + 1)

\* mutant: deactivate() forgets the children
DeactivateMutant(E, n) == SetActive(E, n, FALSE)

\* Node.deactivate()
Deactivate(E, n) ==
    LET E1 == SetActive(E, n, FALSE)
    IN IF E1.tree.nodes[n].hasChildren THEN DeactivateLoop(E1, n, 1) ELSE E1

\* the execution state an operation starts from
Exec(t) ==
    [tree |-> t, log |-> << >>, ticked |-> << >>, returned |-> << >>,
     ret |-> Undefined, depth |-> 0, thrown |-> FALSE]

\* --------------------------------------------------------------- BehaviorTree
\* addToArrayMap(map, key, value)
addToArrayMap(map, key, value) ==
    IF key \in DOMAIN map
    THEN [map EXCEPT ![key] = Append(@, value)]
    ELSE map @@ (key :> <<value>>)

EmptyMap == << >>

RECURSIVE extractActionsAndConditions(_, _, _)
RECURSIVE ExtractChildren(_, _, _, _)
\* node.children.forEach(c => this.extractActionsAndConditions(c)) from child i
ExtractChildren(heap, maps, n, i) ==
    IF i > Len(heap[n].children) THEN maps
    ELSE ExtractChildren(heap,
                         extractActionsAndConditions(heap, maps, heap[n].children[i]),
                         n, i + 1)

\* BehaviorTree.extractActionsAndConditions(node); maps is the pair of maps
extractActionsAndConditions(heap, maps, n) ==
    LET m1 == CASE heap[n].kind = ACTION_KIND ->
                     [maps EXCEPT !.actions = addToArrayMap(@, heap[n].name, n)]
                [] heap[n].kind = CONDITION ->
                     [maps EXCEPT !.conditions = addToArrayMap(@, heap[n].name, n)]
                [] OTHER -> maps
    IN IF heap[n].hasChildren THEN ExtractChildren(heap, m1, n, 1) ELSE m1

\* Action.onActivation(callback)
onActivation(nd, callback) ==
    [nd EXCEPT !.actionActivationCallback = Append(@, callback)]

\* mutant: the constructor does not subscribe onAnyActionActivation
BehaviorTreeMutant(heap, root, line, error) ==
    LET maps == IF root # NullNode
                THEN extractActionsAndConditions(
                         heap, [actions |-> EmptyMap, conditions |-> EmptyMap], root)
                ELSE [actions |-> EmptyMap, conditions |-> EmptyMap]
    IN [root |-> root,
        actions |-> maps.actions,
        conditions |-> maps.conditions,
        line |-> line,
        error |-> error,
        actionActivationCallbacks |-> << >>,
        nodes |-> heap]

\* new BehaviorTree(root, line, error) over the heap the nodes live in
BehaviorTree(heap, root, line, error) ==
    LET maps == IF root # NullNode
                THEN extractActionsAndConditions(
                         heap, [actions |-> EmptyMap, conditions |-> EmptyMap], root)
                ELSE [actions |-> EmptyMap, conditions |-> EmptyMap]
        listed == UNION {Range(maps.actions[k]) : k \in DOMAIN maps.actions}
    IN [root |-> root,
        actions |-> maps.actions,
        conditions |-> maps.conditions,
        line |-> line,
        error |-> error,
        actionActivationCallbacks |-> << >>,
        nodes |-> [n \in DOMAIN heap |->
                      IF n \in listed
                      THEN onActivation(heap[n], AnyActionActivation)
                      ELSE heap[n]]]

RECURSIVE SetStatusAll(_, _, _, _)
\* list.forEach(c => c.setStatus(status)) from element i on
SetStatusAll(heap, list, i, status) ==
    IF i > Len(list) THEN heap
    ELSE SetStatusAll([heap EXCEPT ![list[i]] = SetStatus(@, status)],
                      list, i + 1, status)

\* mutant: setConditionStatus sets the first condition of the name only
setConditionStatusFirst(t, name, status) ==
    IF name \in DOMAIN t.conditions
    THEN [t EXCEPT !.nodes[t.conditions[name][1]] = SetStatus(@, status)]
    ELSE t

\* mutant: setConditionStatus tests has(name) the wrong way round, so it
\* never finds a condition to set
setConditionStatusMutant(t, name, status) == t

\* BehaviorTree.setConditionStatus(name, status)
setConditionStatus(t, name, status) ==
    IF name \in DOMAIN t.conditions
    THEN [t EXCEPT !.nodes = SetStatusAll(@, t.conditions[name], 1, status)]
    ELSE t

\* BehaviorTree.getConditionStatus(name)
getConditionStatus(t, name) ==
    IF name \in DOMAIN t.conditions
    THEN Status(t.nodes[t.conditions[name][1]])
    ELSE NOT_FOUND

\* BehaviorTree.setActionStatus(name, status)
setActionStatus(t, name, status) ==
    IF name \in DOMAIN t.actions
    THEN [t EXCEPT !.nodes = SetStatusAll(@, t.actions[name], 1, status)]
    ELSE t

\* mutant: getActionStatus answers FAILED for a name it does not find
getActionStatusMutant(t, name) ==
    IF name \in DOMAIN t.actions
    THEN Status(t.nodes[t.actions[name][1]])
    ELSE FAILED

\* BehaviorTree.getActionStatus(name)
getActionStatus(t, name) ==
    IF name \in DOMAIN t.actions
    THEN Status(t.nodes[t.actions[name][1]])
    ELSE NOT_FOUND

\* BehaviorTree.onActionActivation(callback)
onActionActivation(t, callback) ==
    [t EXCEPT !.actionActivationCallbacks = Append(@, callback)]

\* --------------------------------------------------------------------- parser
Digits == {"0", "1", "2", "3", "4", "5", "6", "7", "8", "9"}
DigitValue(ch) ==
    CASE ch = "0" -> 0 [] ch = "1" -> 1 [] ch = "2" -> 2 [] ch = "3" -> 3
      [] ch = "4" -> 4 [] ch = "5" -> 5 [] ch = "6" -> 6 [] ch = "7" -> 7
      [] ch = "8" -> 8 [] ch = "9" -> 9

\* the characters String.prototype.trim removes
WhiteSpace == {" ", "\t", "\n", "\r"}

RECURSIVE TrimLeft(_)
TrimLeft(str) ==
    IF str # << >> /\ Head(str) \in WhiteSpace THEN TrimLeft(Tail(str)) ELSE str

RECURSIVE TrimRight(_)
TrimRight(str) ==
    IF str # << >> /\ str[Len(str)] \in WhiteSpace
    THEN TrimRight(SubSeq(str, 1, Len(str) - 1))
    ELSE str

\* String.prototype.trim
Trim(str) == TrimRight(TrimLeft(str))

\* A Number that has no fraction is written as its binary numeral, the least
\* significant bit first and no leading 0: << >> is 0, <<0, 1, 1>> is 6.
DigitBits(ch) ==
    CASE ch = "0" -> << >>        [] ch = "1" -> <<1>>
      [] ch = "2" -> <<0, 1>>     [] ch = "3" -> <<1, 1>>
      [] ch = "4" -> <<0, 0, 1>>  [] ch = "5" -> <<1, 0, 1>>
      [] ch = "6" -> <<0, 1, 1>>  [] ch = "7" -> <<1, 1, 1>>
      [] ch = "8" -> <<0, 0, 0, 1>> [] ch = "9" -> <<1, 0, 0, 1>>

RECURSIVE AddBits(_, _, _)
\* a + b + carry
AddBits(a, b, carry) ==
    IF a = << >> /\ b = << >>
    THEN IF carry = 1 THEN <<1>> ELSE << >>
    ELSE LET x == IF a = << >> THEN 0 ELSE Head(a)
             y == IF b = << >> THEN 0 ELSE Head(b)
             sum == x + y + carry
         IN <<sum % 2>> \o AddBits(IF a = << >> THEN a ELSE Tail(a),
                                   IF b = << >> THEN b ELSE Tail(b),
                                   sum \div 2)

\* 10 * a
TimesTen(a) ==
    IF a = << >> THEN a ELSE AddBits(<<0>> \o a, <<0, 0, 0>> \o a, 0)

RECURSIVE Bits(_)
\* the mathematical value of a run of decimal digits
Bits(numBuf) ==
    IF numBuf = << >> THEN << >>
    ELSE AddBits(TimesTen(Bits(SubSeq(numBuf, 1, Len(numBuf) - 1))),
                 DigitBits(numBuf[Len(numBuf)]), 0)

\* the bits of the significand of a Number (IEEE 754 binary64)
Significand == 53

\* the Number nearest to b, the one with the even significand where two are
\* as near; no digit run of the model comes near the largest Number
NumberOf(b) ==
    IF Len(b) <= Significand THEN b
    ELSE LET k == Len(b) - Significand
             kept == SubSeq(b, k + 1, Len(b))
             sticky == \E j \in 1..(k - 1) : b[j] = 1
             up == b[k] = 1 /\ (sticky \/ kept[1] = 1)
         IN [j \in 1..k |-> 0] \o (IF up THEN AddBits(kept, << >>, 1) ELSE kept)

\* the most bits of a numeral that the integers of the model hold
IntBits == 30

RECURSIVE IntOf(_)
IntOf(b) == IF b = << >> THEN 0 ELSE Head(b) + 2 * IntOf(Tail(b))

\* the Number of the digit run is beyond the integers of the model
Big(numBuf) == Len(NumberOf(Bits(numBuf))) > IntBits

\* mutant: parseInt reads the digit run without its first digit
parseIntMutant(numBuf) ==
    LET n == NumberOf(Bits(IF numBuf = << >> THEN numBuf ELSE Tail(numBuf)))
    IN IF Len(n) <= IntBits THEN IntOf(n) ELSE [bits |-> n]

\* parseInt(numBuf) of a run of decimal digits: the nearest Number, as an
\* integer of the model where it is one and as [bits |-> numeral] beyond
parseInt(numBuf) ==
    LET n == NumberOf(Bits(numBuf))
    IN IF Len(n) <= IntBits THEN IntOf(n) ELSE [bits |-> n]

\* expect(what, have)
expect(what, have) == <<"Expecting '", what, "', have '", have, "'">>

\* buf[i] of the 0-based index i
At(buf, i) == buf[i + 1]

\* parseSequence(buf, i): [i, err]
parseSequence(buf, i) ==
    IF i < Len(buf)
    THEN IF At(buf, i) = ">"
         THEN [i |-> i + 1, err |-> NullError]
         ELSE [i |-> i, err |-> expect(">", At(buf, i))]
    ELSE [i |-> i, err |-> expect(">", "EOF")]

RECURSIVE ParseUntil(_, _, _, _)
\* the while loop shared by parseCondition and parseAction: [i, name, err]
ParseUntil(buf, i, close, acc) ==
    IF i < Len(buf)
    THEN IF At(buf, i) = close
         THEN [i |-> i + 1, name |-> Trim(acc), err |-> NullError]
         ELSE ParseUntil(buf, i + 1, close, Append(acc, At(buf, i)))
    ELSE [i |-> i, name |-> acc, err |-> expect(close, "EOF")]

\* parseCondition(buf, i)
parseCondition(buf, i) == ParseUntil(buf, i, ")", << >>)

\* parseAction(buf, i)
parseAction(buf, i) == ParseUntil(buf, i, "]", << >>)

RECURSIVE DigitRun(_, _, _)
\* the while loop of parseParallel: [i, numBuf]
DigitRun(buf, i, numBuf) ==
    IF i < Len(buf) /\ At(buf, i) \in Digits
    THEN DigitRun(buf, i + 1, Append(numBuf, At(buf, i)))
    ELSE [i |-> i, numBuf |-> numBuf]

\* parseParallel(buf, i): [num, i, err]
parseParallel(buf, i) ==
    LET r == DigitRun(buf, i, << >>)
    IN IF r.numBuf = << >>
       THEN [num |-> 0, i |-> r.i, err |-> <<"Expecting number after parallel node.">>]
       ELSE IF ~Big(r.numBuf) /\ parseInt(r.numBuf) = 0
            THEN [num |-> 0, i |-> r.i,
                  err |-> <<"Parallel node must allow at least one child.">>]
            ELSE [num |-> parseInt(r.numBuf), i |-> r.i, err |-> NullError]

RECURSIVE CommentEnd(_, _)
\* the while loop of parseComment after the second semicolon
CommentEnd(buf, i) ==
    IF i < Len(buf) /\ At(buf, i) \notin {"\n", "\r"}
    THEN CommentEnd(buf, i + 1)
    ELSE i

\* parseComment(buf, i): [i, err]; the comment text is not used by parse
parseComment(buf, i) ==
    IF i = Len(buf)
    THEN [i |-> i, err |-> expect(";", "EOF")]
    ELSE IF At(buf, i) # ";"
         THEN [i |-> i, err |-> expect(";;", At(buf, i))]
         ELSE [i |-> CommentEnd(buf, i + 1), err |-> NullError]

\* nodes[d] of the array 'nodes' of parse; a missing element reads as null
Slot(slots, d) == IF d + 1 \in DOMAIN slots THEN slots[d + 1] ELSE NullNode

\* nodes[d] = n
SetSlot(slots, d, n) ==
    [k \in 1..(IF d + 1 > Len(slots) THEN d + 1 ELSE Len(slots)) |->
        IF k = d + 1 THEN n ELSE Slot(slots, k - 1)]

\* mutant: pushNode without the test for a second root
pushNodeMutant(P) ==
    LET n == Len(P.heap)
        parent == Slot(P.slots, P.indent - 1)
    IN IF P.indent > 0
       THEN IF parent = NullNode
            THEN [P |-> P,
                  err |-> P.heap[n].name
                          \o <<" node has no parent (wrong indentation level)">>]
            ELSE IF P.heap[parent].hasChildren
                 THEN [P |-> [P EXCEPT !.heap[parent].children = Append(@, n),
                                       !.slots = SetSlot(@, P.indent, n),
                                       !.indent = @ + 1],
                       err |-> NullError]
                 ELSE [P |-> P,
                       err |-> <<P.heap[parent].kind,
                                 " node can't have child nodes">>]
       ELSE [P |-> [P EXCEPT !.slots = SetSlot(@, P.indent, n),
                             !.indent = @ + 1],
             err |-> NullError]

\* pushNode(node) for the node just allocated at the end of P.heap: [P, err]
pushNode(P) ==
    LET n == Len(P.heap)
        node == P.heap[n]
        parent == Slot(P.slots, P.indent - 1)
    IN IF P.indent = 0 /\ Slot(P.slots, 0) # NullNode
       THEN [P |-> P,
             err |-> <<"More than one root node or node '">> \o node.name
                       \o <<"' has wrong indentation.">>]
       ELSE IF P.indent > 0
            THEN IF parent = NullNode
                 THEN [P |-> P,
                       err |-> node.name
                               \o <<" node has no parent (wrong indentation level)">>]
                 ELSE IF P.heap[parent].hasChildren
                      THEN [P |-> [P EXCEPT
                                     !.heap[parent].children = Append(@, n),
                                     !.slots = SetSlot(@, P.indent, n),
                                     !.indent = @ + 1],
                            err |-> NullError]
                      ELSE [P |-> P,
                            err |-> <<P.heap[parent].kind,
                                      " node can't have child nodes">>]
            ELSE [P |-> [P EXCEPT !.slots = SetSlot(@, P.indent, n),
                                  !.indent = @ + 1],
                  err |-> NullError]

\* node.setLine(line) on a node about to be allocated
Alloc(P, node) == [P EXCEPT !.heap = Append(@, [node EXCEPT !.line = P.line])]

\* mutant: onError hands out the root built so far
onErrorMutant(P, err) == BehaviorTree(P.heap, Slot(P.slots, 0), P.line, err)

\* onError(err)
onError(P, err) == BehaviorTree(P.heap, NullNode, P.line, err)

\* the switch of the parse loop on the character ch just consumed:
\* [P, err, notNow]
ParseChar(buf, P, ch) ==
    CASE ch = " " \/ ch = "\t" ->
           [P |-> P, err |-> NullError, notNow |-> FALSE]
      [] ch = "\r" ->
           [P |-> [P EXCEPT !.i = IF P.i < Len(buf) /\ At(buf, P.i) = "\n"
                                  THEN @ + 1 ELSE @,
                            !.line = @ + 1, !.indent = 0],
            err |-> NullError, notNow |-> FALSE]
      [] ch = "\n" ->
           [P |-> [P EXCEPT !.line = @ + 1, !.indent = 0],
            err |-> NullError, notNow |-> FALSE]
      [] ch = "|" ->
           [P |-> [P EXCEPT !.indent = @ + 1], err |-> NullError, notNow |-> FALSE]
      [] ch = "!" ->
           IF P.notPending
           THEN [P |-> [P EXCEPT !.notPending = FALSE],
                 err |-> NullError, notNow |-> FALSE]
           ELSE [P |-> [P EXCEPT !.notPending = TRUE],
                 err |-> NullError, notNow |-> TRUE]
      [] ch = "=" ->
           LET r == parseParallel(buf, P.i)
           IN IF r.err # NullError
              THEN [P |-> P, err |-> r.err, notNow |-> FALSE]
              ELSE LET e == pushNode(Alloc([P EXCEPT !.i = r.i], parallel(r.num)))
                   IN [P |-> e.P, err |-> e.err, notNow |-> FALSE]
      [] ch = "?" ->
           LET e == pushNode(Alloc(P, fallback))
           IN [P |-> e.P, err |-> e.err, notNow |-> FALSE]
      [] ch = "-" ->
           LET r == parseSequence(buf, P.i)
           IN IF r.err # NullError
              THEN [P |-> P, err |-> r.err, notNow |-> FALSE]
              ELSE LET e == pushNode(Alloc([P EXCEPT !.i = r.i], sequence))
                   IN [P |-> e.P, err |-> e.err, notNow |-> FALSE]
      [] ch = "(" ->
           LET r == parseCondition(buf, P.i)
           IN IF r.err # NullError
              THEN [P |-> P, err |-> r.err, notNow |-> FALSE]
              ELSE LET e == pushNode(Alloc([P EXCEPT !.i = r.i,
                                                     !.notPending = FALSE],
                                           condition(r.name, P.notPending, FAILED)))
                   IN [P |-> e.P, err |-> e.err, notNow |-> FALSE]
      [] ch = "[" ->
           LET r == parseAction(buf, P.i)
           IN IF r.err # NullError
              THEN [P |-> P, err |-> r.err, notNow |-> FALSE]
              ELSE LET e == pushNode(Alloc([P EXCEPT !.i = r.i],
                                           action(r.name, RUNNING)))
                   IN [P |-> e.P, err |-> e.err, notNow |-> FALSE]
      [] ch = ";" ->
           LET r == parseComment(buf, P.i)
           IN IF r.err # NullError
              THEN [P |-> P, err |-> r.err, notNow |-> FALSE]
              ELSE [P |-> [P EXCEPT !.i = r.i], err |-> NullError, notNow |-> FALSE]
      [] OTHER ->
           [P |-> P,
            err |-> <<"Expecting '|', '-', '!', '[', or '(' but have '", ch, "'">>,
            notNow |-> FALSE]

RECURSIVE ParseLoop(_, _)
\* the while loop of parse and what follows it
ParseLoop(buf, P) ==
    IF P.i < Len(buf)
    THEN LET r == ParseChar(buf, [P EXCEPT !.i = @ + 1], At(buf, P.i))
         IN IF r.err # NullError
            THEN onError(r.P, r.err)
            ELSE IF ~r.notNow /\ r.P.notPending
                 THEN onError(r.P, <<"Not operator can only be applied to conditions">>)
                 ELSE ParseLoop(buf, r.P)
    ELSE IF Slot(P.slots, 0) = NullNode
         THEN onError(P, <<"Tree must have at least one node but has none">>)
         ELSE BehaviorTree(P.heap, Slot(P.slots, 0), P.line, NullError)

\* parse(buf)
parse(buf) ==
    ParseLoop(buf, [i |-> 0, indent |-> 0, line |-> 1, notPending |-> FALSE,
                    slots |-> <<NullNode>>, heap |-> << >>])

\* ----------------------------------------------------------- JSON snapshot
(***************************************************************************)
(* JSON.stringify(tree) followed by JSON.parse: the own enumerable         *)
(* properties of the objects, as nested records.  A function (a callback)  *)
(* inside an array is written as null, a function-valued property and the  *)
(* contents of a Map are not written.  The property _active is the field   *)
(* active; hasChildren = FALSE is "children": null.                        *)
(***************************************************************************)
RECURSIVE toJsonNode(_, _)
toJsonNode(heap, n) ==
    [name |-> heap[n].name,
     kind |-> heap[n].kind,
     hasChildren |-> heap[n].hasChildren,
     children |-> [k \in DOMAIN heap[n].children |->
                      toJsonNode(heap, heap[n].children[k])],
     line |-> heap[n].line,
     active |-> heap[n].active,
     wasActive |-> heap[n].wasActive,
     nodeStatus |-> heap[n].nodeStatus,
     hasNot |-> heap[n].hasNot,
     successCount |-> heap[n].successCount,
     actionActivationCallback |->
         [k \in DOMAIN heap[n].actionActivationCallback |-> "null"]]

\* JSON.parse(JSON.stringify(tree)) of a tree that has a root
toJson(t) ==
    [root |-> toJsonNode(t.nodes, t.root),
     actions |-> EmptyMap,
     conditions |-> EmptyMap,
     line |-> t.line,
     error |-> t.error,
     actionActivationCallbacks |->
         [k \in DOMAIN t.actionActivationCallbacks |-> "null"]]

RECURSIVE nodeFromJson(_, _)
RECURSIVE ChildrenFromJson(_, _, _, _)
\* nodeAsJson.children.map(child => this.nodeFromJson(child)) from child i on:
\* [heap, ids]
ChildrenFromJson(heap, kids, i, ids) ==
    IF i > Len(kids) THEN [heap |-> heap, ids |-> ids]
    ELSE LET r == nodeFromJson(heap, kids[i])
         IN ChildrenFromJson(r.heap, kids, i + 1, Append(ids, r.id))

\* BehaviorTree.nodeFromJson(nodeAsJson): [heap, id]
nodeFromJson(heap, nodeAsJson) ==
    LET k == nodeAsJson.kind
        node == CASE k = FALLBACK -> fallback
                  [] k = SEQUENCE -> sequence
                  [] k = PARALLEL -> parallel(nodeAsJson.successCount)
                  [] k = ACTION_KIND ->
                       action(nodeAsJson.name, nodeAsJson.nodeStatus)
                  [] k = CONDITION ->
                       condition(nodeAsJson.name, nodeAsJson.hasNot,
                                 nodeAsJson.nodeStatus)
        heap1 == Append(heap, [node EXCEPT !.line = nodeAsJson.line])
        id == Len(heap1)
    IN IF nodeAsJson.hasChildren
       THEN LET r == ChildrenFromJson(heap1, nodeAsJson.children, 1, << >>)
            IN [heap |-> [r.heap EXCEPT ![id].hasChildren = TRUE,
                                        ![id].children = r.ids],
                id |-> id]
       ELSE [heap |-> heap1, id |-> id]

\* BehaviorTree.fromJson(treeAsJson)
fromJson(treeAsJson) ==
    LET r == nodeFromJson(<< >>, treeAsJson.root)
    IN BehaviorTree(r.heap, r.id, treeAsJson.line, treeAsJson.error)

\* ------------------------------------------------------------- input texts
DigitChar(j) ==
    CASE j = 0 -> "0" [] j = 1 -> "1" [] j = 2 -> "2" [] j = 3 -> "3"
      [] j = 4 -> "4" [] j = 5 -> "5" [] j = 6 -> "6" [] j = 7 -> "7"
      [] j = 8 -> "8" [] j = 9 -> "9"

Line(depth, tok) == [k \in 1..depth |-> "|"] \o tok

RECURSIVE JoinLines(_)
JoinLines(lines) ==
    IF lines = << >> THEN << >>
    ELSE IF Len(lines) = 1 THEN lines[1]
    ELSE lines[1] \o <<"\n">> \o JoinLines(Tail(lines))

FallbackTok == <<"?">>
SequenceTok == <<"-", ">">>
ParallelTok(k) == <<"=", DigitChar(k)>>
ConditionTok(name) == <<"(">> \o name \o <<")">>
NotConditionTok(name) == <<"!", "(">> \o name \o <<")">>
ActionTok(name) == <<"[">> \o name \o <<"]">>

\* the j-th leaf of a generated tree: (c1) [a2] !(c3) [a4] (c5) ...
LeafTok(j) ==
    IF j % 2 = 0 THEN ActionTok(<<"a", DigitChar(j)>>)
    ELSE IF j % 4 = 3 THEN NotConditionTok(<<"c", DigitChar(j)>>)
    ELSE ConditionTok(<<"c", DigitChar(j)>>)

\* a combinator with k leaves below it
FlatText(rootTok, k) ==
    JoinLines(<<rootTok>> \o [j \in 1..k |-> Line(1, LeafTok(j))])

RootToks ==
    {FallbackTok, SequenceTok} \cup {ParallelTok(k) : k \in 1..(MaxKids + 1)}

\* the tree of the README and of the test 'executes a sample parsed tree'
HungerText ==
    <<"\n">> \o JoinLines(<<FallbackTok,
                            <<"|", " ", " ", " ">> \o NotConditionTok(HungerName),
                            <<"|", " ", " ", " ">> \o ActionTok(EatName)>>)

A2Name == <<"a", "2">>
A4Name == <<"a", "4">>

NestedFallbackText ==
    JoinLines(<<FallbackTok,
                Line(1, SequenceTok),
                Line(2, ConditionTok(C1Name)),
                Line(2, ActionTok(A2Name)),
                Line(1, ActionTok(A4Name))>>)

NestedTexts ==
    { NestedFallbackText,
      JoinLines(<<SequenceTok,
                  Line(1, ConditionTok(C1Name)),
                  Line(1, ParallelTok(1)),
                  Line(2, NotConditionTok(C1Name)),
                  Line(2, ActionTok(A2Name)),
                  Line(1, FallbackTok)>>) }

\* a Parallel that ticks two actions
TwoActionsText ==
    JoinLines(<<ParallelTok(1), Line(1, ActionTok(A2Name)),
                Line(1, ActionTok(A4Name))>>)

LeafTexts == {ActionTok(A2Name), ConditionTok(C1Name), NotConditionTok(C1Name)}

\* flat trees with three leaves below the root
ExampleTexts ==
    {FlatText(FallbackTok, 3), FlatText(SequenceTok, 3), FlatText(ParallelTok(2), 3)}

\* the texts the trees of the engine are parsed from
Corpus ==
    {FlatText(r, k) : r \in RootToks, k \in 0..MaxKids}
    \cup NestedTexts \cup LeafTexts \cup ExampleTexts \cup {HungerText}

\* the pieces the input texts of the parser are assembled from
Pieces ==
    { <<" ">>, <<"\t">>, <<"\n">>, <<"\r">>, <<"|">>, <<"!">>,
      FallbackTok, SequenceTok, <<"-">>,
      ParallelTok(1), ParallelTok(0), <<"=">>,
      ConditionTok(<<"a">>), <<"(", " ", "a">>,
      ActionTok(<<"b">>), <<"[", "b">>,
      <<";", ";">>, <<";">>, <<"x">> }

RECURSIVE TextsOf(_)
\* the concatenations of at most n pieces
TextsOf(n) ==
    IF n = 0 THEN {<< >>}
    ELSE LET S == TextsOf(n - 1) IN S \cup {t \o p : t \in S, p \in Pieces}

\* n consecutive '!' characters
Nots(n) == [k \in 1..n |-> "!"]

\* a condition token with a run of at most MaxPieces '!' right before it,
\* alone and as the first child of a Fallback
NotRunTexts ==
    {Nots(n) \o ConditionTok(<<"a">>) : n \in 0..MaxPieces}
    \cup {JoinLines(<<FallbackTok, Line(1, Nots(n) \o ConditionTok(<<"a">>))>>) :
             n \in 0..MaxPieces}

IndentToks == {FallbackTok, ActionTok(<<"b">>)}

RECURSIVE IndentTexts(_)
\* the texts of j lines with one node token each, a Fallback on the first
\* line and line k indented by at most k - 1 levels
IndentTexts(j) ==
    IF j = 1 THEN {FallbackTok}
    ELSE {t \o <<"\n">> \o Line(d, tok) :
             t \in IndentTexts(j - 1), d \in 0..(j - 1), tok \in IndentToks}

\* a node one level below a Condition or an Action
LeafChildTexts ==
    {JoinLines(<<leaf, Line(1, tok)>>) :
        leaf \in {ConditionTok(<<"a">>), ActionTok(<<"b">>)},
        tok \in IndentToks \cup {ConditionTok(<<"a">>)}}

RECURSIVE DigitRuns(_)
\* the runs of at most n of the digits 0, 1, 2 and 9
DigitRuns(n) ==
    IF n = 0 THEN {<< >>}
    ELSE LET S == DigitRuns(n - 1)
         IN S \cup {r \o <<d>> : r \in S, d \in {"0", "1", "2", "9"}}

\* 2^53 + 1, the least positive integer that is not a Number
UnsafeDigits ==
    <<"9", "0", "0", "7", "1", "9", "9", "2", "5", "4", "7", "4", "0", "9", "9", "3">>

\* '=' followed by a digit run, alone and with an Action below it
ThresholdTexts ==
    LET Runs == DigitRuns(MaxDigits) \cup {UnsafeDigits}
    IN {<<"=">> \o r : r \in Runs}
       \cup {JoinLines(<<<<"=">> \o r, Line(1, ActionTok(<<"b">>))>>) : r \in Runs}

\* a condition or an action whose name holds a line break, alone and with
\* a line after it
BrokenNameTexts ==
    LET Names == {<<"(", "a", "\n", "c", ")">>, <<"[", "b", "\r", "\n", "c", "]">>}
        After == {<< >>, <<"\n">>, <<"\n", "x">>, <<"\n", "|", "?">>, <<"\n", "(">>}
    IN {n \o a : n \in Names, a \in After}
       \cup {FallbackTok \o <<"\n", "|">> \o n \o <<"\n", "|">> \o ActionTok(<<"b">>) :
                n \in Names}

\* the texts given to the parser: those of at most n pieces or j lines
ParseInputs(n, j) ==
    TextsOf(n) \cup Corpus \cup NotRunTexts \cup LeafChildTexts
    \cup UNION {IndentTexts(k) : k \in 1..j}
    \cup ThresholdTexts \cup BrokenNameTexts

\* a name that no tree of the corpus has
MissingName == <<"z">>

\* -------------------------------------------------------------------- state
VARIABLES
    buf,        \* the text given to parse
    tree,       \* the BehaviorTree (and the heap of its nodes)
    lastOp,     \* the operation performed last
    prevOp,     \* the operation before it, if parse, tick or deactivate
    ret,        \* the value returned by the last tick of the root
    ticked,     \* the nodes whose tick() the last operation entered, in order
    returned,   \* the tick() calls of the last operation that returned: [node, value]
    log,        \* the callback invocations of the last operation, in order
    prevFired,  \* the number of callback invocations of the operation before
    rebuilt,    \* <<t>>: the tree fromJson built from the snapshot, ticked
    call,       \* the accessor call the last operation made, with its result
    built,      \* what built the tree: "parse" or "fromJson"
    server      \* the HTTP server: its trees, file loads, requests and posts

vars ==
    <<buf, tree, lastOp, prevOp, ret, ticked, returned, log, prevFired, rebuilt,
      call, built, server>>

\* no accessor call
NoCall == [op |-> "none"]

\* the server when it starts to listen: let trees = new Map(), no readFile
\* under way, no request received, nothing posted downstream
NoServer == [trees |-> << >>, loading |-> {}, requests |-> << >>, posts |-> << >>]

\* the number of subscriptions made so far
Subs(t) ==
    Len(t.actionActivationCallbacks)
    + SeqSum([n \in DOMAIN t.nodes |->
                Cardinality({k \in DOMAIN t.nodes[n].actionActivationCallback :
                               t.nodes[n].actionActivationCallback[k]
                                   # AnyActionActivation})])

Init ==
    /\ buf \in Corpus
    /\ tree = parse(buf)
    /\ lastOp = "parse"
    /\ prevOp = "none"
    /\ ret = Undefined
    /\ ticked = << >>
    /\ returned = << >>
    /\ log = << >>
    /\ prevFired = 0
    /\ rebuilt = << >>
    /\ call = NoCall
    /\ built = "parse"
    /\ server = NoServer

\* what every operation records; c is the accessor call it made.  Nothing
\* catches an exception: after an operation that threw, nothing runs.
DoneCall(op, E, c) ==
    /\ ret # Thrown
    /\ tree' = E.tree
    /\ ret' = IF E.thrown THEN Thrown ELSE E.ret
    /\ ticked' = E.ticked
    /\ returned' = E.returned
    /\ log' = E.log
    /\ prevFired' = Len(log)
    /\ prevOp' = IF lastOp \in {"parse", "tick", "deactivate"} THEN lastOp ELSE "other"
    /\ lastOp' = op
    /\ rebuilt' = << >>
    /\ call' = c
    /\ UNCHANGED <<buf, built, server>>

Done(op, E) == DoneCall(op, E, NoCall)

\* tree.root.tick()
TickRoot ==
    /\ tree.root # NullNode
    /\ Done("tick", Tick(Exec(tree), tree.root))

\* tree.root.deactivate()
DeactivateRoot ==
    /\ tree.root # NullNode
    /\ Done("deactivate", Deactivate(Exec(tree), tree.root))

\* tree.setConditionStatus(name, status)
SetConditionStatus ==
    \E name \in DOMAIN tree.conditions \cup {MissingName}, status \in Statuses :
        Done("setConditionStatus", Exec(setConditionStatus(tree, name, status)))

\* tree.setActionStatus(name, status)
SetActionStatus ==
    \E name \in DOMAIN tree.actions \cup {MissingName}, status \in Statuses :
        Done("setActionStatus", Exec(setActionStatus(tree, name, status)))

\* tree.onActionActivation(h)
OnActionActivation ==
    /\ Subs(tree) < MaxSubs
    /\ \E h \in Handlers :
        Done("onActionActivation", Exec(onActionActivation(tree, h)))

\* node.onActivation(h) on an Action node of the tree
OnActivation ==
    /\ Subs(tree) < MaxSubs
    /\ \E h \in Handlers, n \in DOMAIN tree.nodes :
        /\ tree.nodes[n].kind = ACTION_KIND
        /\ Done("onActivation",
                Exec([tree EXCEPT !.nodes[n] = onActivation(@, h)]))

\* after a tick of the root:
\* copy = BehaviorTree.fromJson(JSON.parse(JSON.stringify(tree)));
\* copy.root.tick()
Rehydrate ==
    /\ tree.root # NullNode
    /\ lastOp = "tick"
    /\ rebuilt = << >>
    /\ LET copy == fromJson(toJson(tree))
       IN rebuilt' = <<Tick(Exec(copy), copy.root).tree>>
    /\ UNCHANGED <<buf, tree, lastOp, prevOp, ret, ticked, returned, log, prevFired,
                   call, built, server>>

Next ==
    \/ TickRoot
    \/ DeactivateRoot
    \/ SetConditionStatus
    \/ SetActionStatus
    \/ OnActionActivation
    \/ OnActivation
    \/ Rehydrate

Spec == Init /\ [][Next]_vars

\* ------------------------------------------------- the parser on its own
\* the variable tree before parse has returned
NoTree == BehaviorTree(<< >>, NullNode, 0, NullError)

InitParse ==
    /\ buf \in ParseInputs(MaxPieces, MaxLines)
    /\ tree = NoTree
    /\ lastOp = "start"
    /\ prevOp = "none"
    /\ ret = Undefined
    /\ ticked = << >>
    /\ returned = << >>
    /\ log = << >>
    /\ prevFired = 0
    /\ rebuilt = << >>
    /\ call = NoCall
    /\ built = "parse"
    /\ server = NoServer

\* tree = parse(buf)
ParseText ==
    /\ lastOp = "start"
    /\ tree' = parse(buf)
    /\ lastOp' = "parse"
    /\ UNCHANGED <<buf, prevOp, ret, ticked, returned, log, prevFired, rebuilt,
                   call, built, server>>

\* tree = BehaviorTree.fromJson(JSON.parse(JSON.stringify(tree))) of a tree
\* parsed without error
ReloadText ==
    /\ lastOp = "parse"
    /\ tree.root # NullNode
    /\ tree' = fromJson(toJson(tree))
    /\ lastOp' = "fromJson"
    /\ built' = "fromJson"
    /\ UNCHANGED <<buf, prevOp, ret, ticked, returned, log, prevFired, rebuilt,
                   call, server>>

NextParse == ParseText \/ ReloadText

SpecParse == InitParse /\ [][NextParse]_vars

\* ------------------------------------------------------- repeated ticks
\* tree.root.deactivate(); tree.root.tick(): the two calls of the usual
\* cycle, one right after the other
DeactivateThenTick ==
    /\ tree.root # NullNode
    /\ ret # Thrown
    /\ \E D \in {Deactivate(Exec(tree), tree.root)} :
           \E E \in {Tick(Exec(D.tree), tree.root)} :
               /\ tree' = E.tree
               /\ ret' = E.ret
               /\ ticked' = E.ticked
               /\ returned' = E.returned
               /\ log' = E.log
               /\ prevFired' = Len(D.log)
    /\ prevOp' = "deactivate"
    /\ lastOp' = "tick"
    /\ rebuilt' = << >>
    /\ call' = NoCall
    /\ UNCHANGED <<buf, built, server>>

NextTwice ==
    \/ TickRoot
    \/ DeactivateThenTick
    \/ SetConditionStatus
    \/ SetActionStatus

\* ticks, cycles and status changes, with no callback subscribed
SpecTwice == Init /\ [][NextTwice]_vars

\* ---------------------------------------------- the accessors on their own
\* a tree that names a condition twice, once negated, and an action twice
TwinsText ==
    JoinLines(<<FallbackTok,
                Line(1, NotConditionTok(C1Name)),
                Line(1, ActionTok(A2Name)),
                Line(1, ConditionTok(C1Name)),
                Line(1, ActionTok(A2Name))>>)

\* the trees the accessors are called on
AccessTexts == NestedTexts \cup LeafTexts \cup {HungerText, TwinsText}

\* the names the accessors are called with: every name of the tree, asked
\* of both kinds, and a name the tree does not have
AccessNames(t) == DOMAIN t.conditions \cup DOMAIN t.actions \cup {MissingName}

Called(op, name, status, result) ==
    [op |-> op, name |-> name, status |-> status, result |-> result]

InitAccess ==
    /\ buf \in AccessTexts
    /\ tree = parse(buf)
    /\ lastOp = "parse"
    /\ prevOp = "none"
    /\ ret = Undefined
    /\ ticked = << >>
    /\ returned = << >>
    /\ log = << >>
    /\ prevFired = 0
    /\ rebuilt = << >>
    /\ call = NoCall
    /\ built = "parse"
    /\ server = NoServer

\* tree.getConditionStatus(name)
AccessGetCondition ==
    \E name \in AccessNames(tree) :
        DoneCall("getConditionStatus", Exec(tree),
                 Called("getConditionStatus", name, Undefined,
                        getConditionStatus(tree, name)))

\* tree.getActionStatus(name)
AccessGetAction ==
    \E name \in AccessNames(tree) :
        DoneCall("getActionStatus", Exec(tree),
                 Called("getActionStatus", name, Undefined,
                        getActionStatus(tree, name)))

\* tree.setConditionStatus(name, status)
AccessSetCondition ==
    \E name \in AccessNames(tree), status \in Statuses :
        DoneCall("setConditionStatus",
                 Exec(setConditionStatus(tree, name, status)),
                 Called("setConditionStatus", name, status, Undefined))

\* tree.setActionStatus(name, status)
AccessSetAction ==
    \E name \in AccessNames(tree), status \in Statuses :
        DoneCall("setActionStatus",
                 Exec(setActionStatus(tree, name, status)),
                 Called("setActionStatus", name, status, Undefined))

NextAccess ==
    \/ TickRoot
    \/ DeactivateRoot
    \/ AccessGetCondition
    \/ AccessGetAction
    \/ AccessSetCondition
    \/ AccessSetAction

SpecAccess == InitAccess /\ [][NextAccess]_vars

\* ------------------------------------------ callbacks that act on the tree
\* the trees of the README sample and of the tests with such callbacks, and
\* trees in which the re-tick of a callback reaches an action again
ReactTexts ==
    {HungerText, FlatText(FallbackTok, 2), FlatText(SequenceTok, 2),
     NestedFallbackText, TwoActionsText}

ReactHandlers == Handlers \cup {EatHandler, RetickHandler}

InitReact ==
    /\ buf \in ReactTexts
    /\ tree = parse(buf)
    /\ lastOp = "parse"
    /\ prevOp = "none"
    /\ ret = Undefined
    /\ ticked = << >>
    /\ returned = << >>
    /\ log = << >>
    /\ prevFired = 0
    /\ rebuilt = << >>
    /\ call = NoCall
    /\ built = "parse"
    /\ server = NoServer

\* tree.onActionActivation(h)
ReactSubscribeTree ==
    /\ Subs(tree) < MaxSubs
    /\ \E h \in ReactHandlers :
        Done("onActionActivation", Exec(onActionActivation(tree, h)))

\* node.onActivation(h) on an Action node of the tree
ReactSubscribeNode ==
    /\ Subs(tree) < MaxSubs
    /\ \E h \in ReactHandlers, n \in DOMAIN tree.nodes :
        /\ tree.nodes[n].kind = ACTION_KIND
        /\ Done("onActivation",
                Exec([tree EXCEPT !.nodes[n] = onActivation(@, h)]))

\* tree = BehaviorTree.fromJson(JSON.parse(JSON.stringify(tree)))
ReactReload ==
    /\ ret # Thrown
    /\ built = "parse"
    /\ tree.root # NullNode
    /\ tree' = fromJson(toJson(tree))
    /\ built' = "fromJson"
    /\ lastOp' = "fromJson"
    /\ prevOp' = "other"
    /\ ret' = Undefined
    /\ ticked' = << >>
    /\ returned' = << >>
    /\ log' = << >>
    /\ prevFired' = 0
    /\ UNCHANGED <<buf, rebuilt, call, server>>

NextReact ==
    \/ TickRoot
    \/ DeactivateRoot
    \/ SetConditionStatus
    \/ ReactSubscribeTree
    \/ ReactSubscribeNode
    \/ ReactReload

SpecReact == InitReact /\ [][NextReact]_vars

\* ------------------------------------- a callback that runs the usual cycle
\* tree.onActionActivation(callback) with the callback that deactivates the
\* tree and ticks it
CycleSubscribeTree ==
    /\ Subs(tree) < MaxSubs
    /\ Done("onActionActivation", Exec(onActionActivation(tree, CycleHandler)))

\* node.onActivation(callback) with that callback on an Action node
CycleSubscribeNode ==
    /\ Subs(tree) < MaxSubs
    /\ \E n \in DOMAIN tree.nodes :
        /\ tree.nodes[n].kind = ACTION_KIND
        /\ Done("onActivation",
                Exec([tree EXCEPT !.nodes[n] = onActivation(@, CycleHandler)]))

NextCycle ==
    \/ TickRoot
    \/ DeactivateRoot
    \/ SetConditionStatus
    \/ CycleSubscribeTree
    \/ CycleSubscribeNode

SpecCycle == InitReact /\ [][NextCycle]_vars

\* ------------------------------------------ tick and deactivate of any node
\* the node an operation was called on
OnNode(n) == [op |-> "node", node |-> n]

\* node.tick() on a node of the tree
TickNode ==
    \E n \in DOMAIN tree.nodes :
        DoneCall("tick", Tick(Exec(tree), n), OnNode(n))

\* node.deactivate() on a node of the tree
DeactivateNode ==
    \E n \in DOMAIN tree.nodes :
        DoneCall("deactivate", Deactivate(Exec(tree), n), OnNode(n))

NextNode ==
    \/ TickNode
    \/ DeactivateNode
    \/ SetConditionStatus

\* the trees whose nodes are ticked and deactivated one by one
NodeTexts == {NestedFallbackText, HungerText} \cup LeafTexts

InitNode == Init /\ buf \in NodeTexts

SpecNode == InitNode /\ [][NextNode]_vars

\* ---------------------------------------------------------- the HTTP server
\* the variables of the engine, which the server leaves alone
engine ==
    <<buf, tree, lastOp, prevOp, ret, ticked, returned, log, prevFired, rebuilt,
      call, built>>

\* req.body['Action'] and req.body['Params'] of the requests
ServeActions == {"eat", "gone"}
ServeParams == {<< >>, <<"now">>}

\* parameters.length ? `${actionName} ${parameters.join(' ')}` : actionName,
\* kept as the words that the blanks separate
fullActionName(actionName, parameters) ==
    IF Len(parameters) > 0 THEN <<actionName>> \o parameters ELSE <<actionName>>

\* fs.readFile(treeFileName): <<data>>, or << >> for err; eat.tree holds the
\* tree of the README and there is no file gone.tree
TreeFileText(actionName) ==
    IF actionName = "eat" THEN <<HungerText>> ELSE << >>

\* the callback (action) => startAction(tree, action) of /start
StartActionHandler == "startAction"

\* req.body['Atomics'] of the /update requests: one condition name with a
\* JSON value
Atomics == {[name |-> HungerName, value |-> v] : v \in {"true", "false", "7"}}

\* conditionValueToStatus(value); default: throw new Error(...)
conditionValueToStatus(value) ==
    CASE value = "true" -> SUCCESS
      [] value = "false" -> FAILED
      [] OTHER -> Thrown

\* updateTree(tree, conditionValues) for values that are supported
updateTree(t, conditionValues) ==
    setConditionStatus(t, conditionValues.name,
                       conditionValueToStatus(conditionValues.value))

\* startAction(tree, action): the request posted downstream, if any
startAction(posts, act) ==
    IF act.active THEN Append(posts, act.name) ELSE posts

\* a request received, with the status of the response sent (0: none yet)
Request(kind, key, reply) == [kind |-> kind, key |-> key, reply |-> reply]

\* buf holds the text of the file eat.tree and tree what the callback of
\* readFile builds from it: let tree = parse(data);
\* tree.onActionActivation(action => startAction(tree, action))
InitServe ==
    /\ buf = TreeFileText("eat")[1]
    /\ tree = onActionActivation(parse(buf), StartActionHandler)
    /\ lastOp = "listen"
    /\ prevOp = "none"
    /\ ret = Undefined
    /\ ticked = << >>
    /\ returned = << >>
    /\ log = << >>
    /\ prevFired = 0
    /\ rebuilt = << >>
    /\ call = NoCall
    /\ built = "parse"
    /\ server = NoServer

\* app.post('/start'), up to the call of fs.readFile
PostStart ==
    /\ Len(server.requests) < MaxRequests
    /\ \E actionName \in ServeActions, parameters \in ServeParams :
        LET key == fullActionName(actionName, parameters)
            r == Len(server.requests) + 1
        IN IF key \in DOMAIN server.trees
           THEN server' = [server EXCEPT
                              !.requests = Append(@, Request("start", key, 409))]
           ELSE server' = [server EXCEPT
                              !.requests = Append(@, Request("start", key, 0)),
                              !.loading = @ \cup {[request |-> r, key |-> key,
                                                   file |-> actionName]}]
    /\ UNCHANGED engine

\* the callback of fs.readFile in /start; `by` is the request whose load
\* put the tree into the map
FileLoaded ==
    /\ \E l \in server.loading :
        IF TreeFileText(l.file) = << >>
        THEN server' = [server EXCEPT !.loading = @ \ {l},
                                      !.requests[l.request].reply = 404]
        ELSE server' = [server EXCEPT
                           !.loading = @ \ {l},
                           !.trees = (l.key :> [tree |-> tree,
                                                by |-> l.request]) @@ @,
                           !.requests[l.request].reply = 202]
    /\ UNCHANGED engine

\* app.post('/stop')
PostStop ==
    /\ Len(server.requests) < MaxRequests
    /\ \E actionName \in ServeActions, parameters \in ServeParams :
        server' = [server EXCEPT
                      !.requests = Append(@, Request("stop",
                                                     <<actionName>> \o parameters, 202))]
    /\ UNCHANGED engine

\* app.post('/update'); the Error of conditionValueToStatus leaves the
\* handler at the first tree, and express answers 500
PostUpdate ==
    /\ Len(server.requests) < MaxRequests
    /\ \E atomicsValues \in Atomics :
        IF /\ DOMAIN server.trees # {}
           /\ conditionValueToStatus(atomicsValues.value) = Thrown
        THEN server' = [server EXCEPT
                           !.requests = Append(@, Request("update", atomicsValues, 500))]
        ELSE server' = [server EXCEPT
                           !.trees = [k \in DOMAIN @ |->
                                         [@[k] EXCEPT !.tree = updateTree(@, atomicsValues)]],
                           !.requests = Append(@, Request("update", atomicsValues, 202))]
    /\ UNCHANGED engine

NextServe ==
    \/ PostStart
    \/ FileLoaded
    \/ PostStop
    \/ PostUpdate

SpecServe == InitServe /\ [][NextServe]_vars

\* the event loop runs the callback of every readFile that has completed
SpecServeLive == SpecServe /\ WF_vars(FileLoaded)

\* ===================================================================== claims
\* what the claims read from the state
NodeIds == DOMAIN tree.nodes
Kind(n) == tree.nodes[n].kind
Kids(n) == tree.nodes[n].children
TickedSet == Range(ticked)
\* the value the tick() of node n returned in the last operation
RetOf(n) == returned[CHOOSE k \in DOMAIN returned : returned[k].node = n].value
\* the position of node n among the tick() calls of the last operation
PosOf(n) == CHOOSE k \in DOMAIN ticked : ticked[k] = n
\* the children of n, by index, that the last operation ticked
TickedKids(n) == {i \in DOMAIN Kids(n) : Kids(n)[i] \in TickedSet}
\* every node is ticked at most once by one tick of the root
TickedOnce == Cardinality(TickedSet) = Len(ticked) /\ Len(returned) = Len(ticked)
\* the ticked children of n are its first m children, ticked in that order
PrefixInOrder(n) ==
    /\ TickedKids(n) = 1..Cardinality(TickedKids(n))
    /\ \A i, j \in TickedKids(n) : i < j => PosOf(Kids(n)[i]) < PosOf(Kids(n)[j])
    /\ \A i \in TickedKids(n) : PosOf(n) < PosOf(Kids(n)[i])

\* C1: a ticked Fallback ticks its children in declaration order up to the
\* first one that returns SUCCESS or RUNNING, takes that child's result as its
\* status and return value and ticks no later child (after deactivate + tick
\* the later children are inactive); with no such child, also with no child
\* at all, every child is ticked and the status and return value are FAILED.
C1_FallbackTick ==
    lastOp = "tick" =>
        /\ TickedOnce
        /\ \A n \in TickedSet : Kind(n) = FALLBACK =>
            LET m == Cardinality(TickedKids(n))
                stopped == m >= 1 /\ RetOf(Kids(n)[m]) \in {SUCCESS, RUNNING}
            IN /\ PrefixInOrder(n)
               /\ \A i \in 1..(m - 1) : RetOf(Kids(n)[i]) = FAILED
               /\ stopped =>
                    /\ tree.nodes[n].nodeStatus = RetOf(Kids(n)[m])
                    /\ RetOf(n) = RetOf(Kids(n)[m])
               /\ ~stopped =>
                    /\ m = Len(Kids(n))
                    /\ tree.nodes[n].nodeStatus = FAILED
                    /\ RetOf(n) = FAILED
               /\ prevOp = "deactivate" =>
                    \A i \in DOMAIN Kids(n) : i > m => ~tree.nodes[Kids(n)[i]].active
        /\ ret = RetOf(tree.root)

\* C1 witness: a Fallback with children returning FAILED, RUNNING and a third
\* child that was not ticked and is inactive after deactivate + tick
C1_Witness ==
    /\ lastOp = "tick" /\ prevOp = "deactivate"
    /\ \E n \in TickedSet :
        /\ Kind(n) = FALLBACK /\ Len(Kids(n)) = 3
        /\ TickedKids(n) = {1, 2}
        /\ RetOf(Kids(n)[1]) = FAILED /\ RetOf(Kids(n)[2]) = RUNNING
        /\ Status(tree.nodes[Kids(n)[3]]) = SUCCESS
        /\ ~tree.nodes[Kids(n)[3]].active
        /\ RetOf(n) = RUNNING

\* C2: a ticked Sequence ticks its children in declaration order up to the
\* first one that returns RUNNING or FAILED, takes that child's result as its
\* status and return value and ticks no later child; with no such child, also
\* with no child at all, every child is ticked and the status is SUCCESS.
C2_SequenceTick ==
    lastOp = "tick" =>
        /\ TickedOnce
        /\ \A n \in TickedSet : Kind(n) = SEQUENCE =>
            LET m == Cardinality(TickedKids(n))
                stopped == m >= 1 /\ RetOf(Kids(n)[m]) \in {RUNNING, FAILED}
            IN /\ PrefixInOrder(n)
               /\ \A i \in 1..(m - 1) : RetOf(Kids(n)[i]) = SUCCESS
               /\ stopped =>
                    /\ tree.nodes[n].nodeStatus = RetOf(Kids(n)[m])
                    /\ RetOf(n) = RetOf(Kids(n)[m])
               /\ ~stopped =>
                    /\ m = Len(Kids(n))
                    /\ tree.nodes[n].nodeStatus = SUCCESS
                    /\ RetOf(n) = SUCCESS

\* C2 witness: a Sequence with children returning SUCCESS, FAILED and a third
\* child of status SUCCESS that was not ticked
C2_Witness ==
    /\ lastOp = "tick"
    /\ \E n \in TickedSet :
        /\ Kind(n) = SEQUENCE /\ Len(Kids(n)) = 3
        /\ TickedKids(n) = {1, 2}
        /\ RetOf(Kids(n)[1]) = SUCCESS /\ RetOf(Kids(n)[2]) = FAILED
        /\ Status(tree.nodes[Kids(n)[3]]) = SUCCESS
        /\ RetOf(n) = FAILED

\* the number of ticked children of n that returned v
CountRet(n, v) == Cardinality({i \in TickedKids(n) : RetOf(Kids(n)[i]) = v})

RECURSIVE Descendants(_, _)
\* node n and the nodes below it
Descendants(heap, n) ==
    {n} \cup UNION {Descendants(heap, heap[n].children[k]) :
                       k \in DOMAIN heap[n].children}

\* the nodes a caller can reach from a BehaviorTree value
ReachableNodes(t) ==
    (IF t.root = NullNode THEN {} ELSE Descendants(t.nodes, t.root))
    \cup UNION {Range(t.actions[k]) : k \in DOMAIN t.actions}
    \cup UNION {Range(t.conditions[k]) : k \in DOMAIN t.conditions}

LineBreaks == {"\n", "\r"}

RECURSIVE LineEnd(_, _)
\* the first position from i on that holds a line break, or Len(text) + 1
LineEnd(text, i) ==
    IF i > Len(text) \/ text[i] \in LineBreaks THEN i ELSE LineEnd(text, i + 1)

RECURSIVE OnlyBlank(_, _)
\* from position i on the text holds only spaces, tabs, line breaks and
\* ';;' comments
OnlyBlank(text, i) ==
    IF i > Len(text) THEN TRUE
    ELSE IF text[i] \in {" ", "\t"} \cup LineBreaks THEN OnlyBlank(text, i + 1)
    ELSE IF text[i] = ";" /\ i < Len(text) /\ text[i + 1] = ";"
         THEN OnlyBlank(text, LineEnd(text, i + 2))
    ELSE FALSE

NoNodeMessage == <<"Tree must have at least one node but has none">>

\* C4: parse returns, for every text, a tree value of one of two shapes: a
\* root and a null error, or a null root and a non-null message with a line
\* that is at least 1 (and at most 1 + the line breaks of the text); a text of
\* blanks and comments only gives the second shape with the 'must have at
\* least one node' message; no node is reachable from a result with an error.
C4_ParseResult ==
    lastOp = "parse" =>
        /\ \/ /\ tree.root \in DOMAIN tree.nodes
              /\ tree.error = NullError
           \/ /\ tree.root = NullNode
              /\ tree.error # NullError
              /\ tree.line >= 1
              /\ tree.line <= 1 + Cardinality({i \in DOMAIN buf : buf[i] \in LineBreaks})
        /\ OnlyBlank(buf, 1) => tree.root = NullNode /\ tree.error = NoNodeMessage
        /\ tree.error # NullError => ReachableNodes(tree) = {}

\* C4 witness: a text whose parse built two nodes before it hit an error
C4_Witness ==
    /\ lastOp = "parse"
    /\ tree.error # NullError /\ tree.error # NoNodeMessage
    /\ tree.root = NullNode
    /\ Len(tree.nodes) >= 2
    /\ tree.nodes[1].children # << >>

\* C5: after deactivate() of the root followed by a tick of the root, a node
\* is active exactly when its tick() was entered during that tick.
C5_ActivePath ==
    (lastOp = "tick" /\ prevOp = "deactivate") =>
        \A n \in NodeIds : tree.nodes[n].active <=> n \in TickedSet

\* C5 witness: after deactivate + tick a node that was active before is
\* skipped by the short-circuit and is inactive
C5_Witness ==
    /\ lastOp = "tick" /\ prevOp = "deactivate"
    /\ \E n \in NodeIds :
        /\ n \notin TickedSet
        /\ tree.nodes[n].wasActive
        /\ ~tree.nodes[n].active

\* the status a negated read turns the raw status v into
Flipped(v) == IF v = SUCCESS THEN FAILED ELSE IF v = FAILED THEN SUCCESS ELSE v
\* the last child of p that the last operation ticked
LastTickedKid(p) == Kids(p)[Cardinality(TickedKids(p))]

C6_Read ==
    lastOp = "tick" =>
        \A n \in TickedSet : Kind(n) = CONDITION =>
            LET raw == tree.nodes[n].nodeStatus
                seen == IF tree.nodes[n].hasNot THEN Flipped(raw) ELSE raw
            IN /\ RetOf(n) = seen
               /\ Status(tree.nodes[n]) = seen
               /\ \A p \in TickedSet :
                    (/\ Kind(p) \in {FALLBACK, SEQUENCE}
                     /\ TickedKids(p) # {}
                     /\ LastTickedKid(p) = n)
                    => tree.nodes[p].nodeStatus = seen

C6_Frame ==
    TickRoot =>
        \A n \in NodeIds : Kind(n) = CONDITION =>
            tree'.nodes[n].nodeStatus = tree.nodes[n].nodeStatus

\* C6: the tick of a negated Condition returns FAILED for the raw status
\* SUCCESS and SUCCESS for the raw status FAILED, the tick of a plain
\* Condition returns the raw status, status() reads the same, the Fallback or
\* Sequence that ticked the condition last takes the value read, and a tick
\* leaves the raw status of every Condition as it was.
C6_Negation == [](C6_Read) /\ [][C6_Frame]_vars

\* C6 witness: a negated condition of raw status SUCCESS was ticked and
\* returned FAILED to the Fallback above it
C6_Witness ==
    /\ lastOp = "tick"
    /\ \E n \in TickedSet :
        /\ Kind(n) = CONDITION /\ tree.nodes[n].hasNot
        /\ tree.nodes[n].nodeStatus = SUCCESS
        /\ RetOf(n) = FAILED
        /\ \E p \in TickedSet :
            /\ Kind(p) = FALLBACK
            /\ n \in Range(Kids(p))
            /\ LastTickedKid(p) # n

\* the number of elements of the sequence q that satisfy Test
CountIn(q, Test(_)) == Cardinality({k \in DOMAIN q : Test(q[k])})

\* the number of times handler h is subscribed to action n, directly or
\* through the tree-wide list
Subscriptions(n, h) ==
    LET Is(c) == c = h
        IsAny(c) == c = AnyActionActivation
    IN CountIn(tree.nodes[n].actionActivationCallback, Is)
       + CountIn(tree.nodes[n].actionActivationCallback, IsAny)
         * CountIn(tree.actionActivationCallbacks, Is)

\* the number of invocations of handler h with action n in the last operation
Invocations(n, h) ==
    LET Is(e) == e.cb = h /\ e.node = n IN CountIn(log, Is)

C8_NotifyOnce ==
    (/\ lastOp = "tick" /\ prevOp = "tick"
     /\ Kind(tree.root) = ACTION_KIND
     /\ \E h \in Handlers :
            tree.nodes[tree.root].actionActivationCallback
                = <<AnyActionActivation, h>>)
    => prevFired + Len(log) = 1

RECURSIVE ClaimedFields(_)
\* the fields of a serialized node that the round trip is claimed to keep
ClaimedFields(json) ==
    [name |-> json.name, kind |-> json.kind,
     active |-> json.active, wasActive |-> json.wasActive,
     nodeStatus |-> json.nodeStatus, hasNot |-> json.hasNot,
     line |-> json.line, successCount |-> json.successCount,
     hasChildren |-> json.hasChildren,
     children |-> [k \in DOMAIN json.children |-> ClaimedFields(json.children[k])]]

\* C9 (as claimed): after a tick of the root the tree rebuilt from the
\* snapshot and ticked serializes, field by field, as the original does.
C9_RoundTrip ==
    rebuilt # << >> =>
        ClaimedFields(toJson(rebuilt[1]).root) = ClaimedFields(toJson(tree).root)

\* C10: in the tree '?' over '!(have hunger)' and '[eat]' with no callback
\* subscribed, the parsed condition is FAILED and the parsed action RUNNING;
\* the first tick returns SUCCESS after ticking the root and the condition
\* only; a tick with the condition set to SUCCESS and the action RUNNING
\* activates [eat] and gives the root the status RUNNING.
C10_Hunger ==
    (buf = HungerText /\ Subs(tree) = 0) =>
        /\ Kind(1) = FALLBACK /\ tree.root = 1 /\ Kids(1) = <<2, 3>>
        /\ Kind(2) = CONDITION /\ tree.nodes[2].hasNot
        /\ tree.nodes[2].name = HungerName
        /\ Kind(3) = ACTION_KIND /\ tree.nodes[3].name = EatName
        /\ lastOp = "parse" =>
              /\ tree.nodes[2].nodeStatus = FAILED
              /\ tree.nodes[3].nodeStatus = RUNNING
        /\ (lastOp = "tick" /\ prevOp = "parse") =>
              /\ ret = SUCCESS
              /\ ticked = <<1, 2>>
              /\ ~tree.nodes[3].active
        /\ (/\ lastOp = "tick"
            /\ tree.nodes[2].nodeStatus = SUCCESS
            /\ tree.nodes[3].nodeStatus = RUNNING) =>
              /\ tree.nodes[3].active
              /\ ret = RUNNING
              /\ Status(tree.nodes[tree.root]) = RUNNING

\* C10 witness: the tick after 'have hunger' was set to SUCCESS
C10_Witness ==
    /\ buf = HungerText /\ Subs(tree) = 0
    /\ lastOp = "tick"
    /\ getConditionStatus(tree, HungerName) = FAILED
    /\ tree.nodes[2].nodeStatus = SUCCESS
    /\ tree.nodes[3].active
    /\ ret = RUNNING

\* ------------------------------------------------ the tokens of a text
(***************************************************************************)
(* What the parser claims say about a text is said about its tokens: the   *)
(* '!' characters and the node tokens outside names and comments, each     *)
(* with its position and its depth (the '|' before it on its line plus the *)
(* node tokens before it on its line).  A malformed token ends the list    *)
(* with a token "bad".                                                     *)
(***************************************************************************)
NodeKinds == {FALLBACK, SEQUENCE, PARALLEL, ACTION_KIND, CONDITION}
LeafKinds == {ACTION_KIND, CONDITION}

Tok(what, at, depth) == [what |-> what, at |-> at, depth |-> depth]

RECURSIVE Find(_, _, _)
\* the first position from i on that holds ch, or 0
Find(text, i, ch) ==
    IF i > Len(text) THEN 0
    ELSE IF text[i] = ch THEN i ELSE Find(text, i + 1, ch)

RECURSIVE DigitsEnd(_, _)
\* the first position from i on that holds no digit
DigitsEnd(text, i) ==
    IF i <= Len(text) /\ text[i] \in Digits THEN DigitsEnd(text, i + 1) ELSE i

RECURSIVE Tokens(_, _, _, _)
Tokens(text, i, depth, acc) ==
    IF i > Len(text) THEN acc
    ELSE LET ch == text[i]
             bad == Append(acc, Tok("bad", i, depth))
         IN CASE ch \in {" ", "\t"} -> Tokens(text, i + 1, depth, acc)
              [] ch \in LineBreaks -> Tokens(text, i + 1, 0, acc)
              [] ch = "|" -> Tokens(text, i + 1, depth + 1, acc)
              [] ch = "!" ->
                   Tokens(text, i + 1, depth, Append(acc, Tok("!", i, depth)))
              [] ch = "?" ->
                   Tokens(text, i + 1, depth + 1,
                          Append(acc, Tok(FALLBACK, i, depth)))
              [] ch = "-" ->
                   IF i < Len(text) /\ text[i + 1] = ">"
                   THEN Tokens(text, i + 2, depth + 1,
                               Append(acc, Tok(SEQUENCE, i, depth)))
                   ELSE bad
              [] ch = "=" ->
                   LET e == DigitsEnd(text, i + 1)
                   IN IF \E k \in (i + 1)..(e - 1) : text[k] # "0"
                      THEN Tokens(text, e, depth + 1,
                                  Append(acc, Tok(PARALLEL, i, depth)))
                      ELSE bad
              [] ch = "(" ->
                   LET e == Find(text, i + 1, ")")
                   IN IF e = 0 THEN bad
                      ELSE Tokens(text, e + 1, depth + 1,
                                  Append(acc, Tok(CONDITION, i, depth)))
              [] ch = "[" ->
                   LET e == Find(text, i + 1, "]")
                   IN IF e = 0 THEN bad
                      ELSE Tokens(text, e + 1, depth + 1,
                                  Append(acc, Tok(ACTION_KIND, i, depth)))
              [] ch = ";" ->
                   IF i < Len(text) /\ text[i + 1] = ";"
                   THEN Tokens(text, LineEnd(text, i + 2), depth, acc)
                   ELSE bad
              [] OTHER -> bad

\* the tokens of the text given to parse
Toks == Tokens(buf, 1, 0, << >>)

IsNodeTok(t) == t.what \in NodeKinds
\* the node tokens: on a successful parse the k-th is the node k of the tree
NodeToks == SelectSeq(Toks, IsNodeTok)
Depth(k) == NodeToks[k].depth

RECURSIVE NotRun(_, _)
\* the length of the run of adjacent '!' tokens that ends with token k
NotRun(T, k) ==
    IF k = 0 \/ T[k].what # "!" THEN 0
    ELSE IF k > 1 /\ T[k - 1].what = "!" /\ T[k - 1].at = T[k].at - 1
         THEN 1 + NotRun(T, k - 1)
         ELSE 1

\* the '!' characters right before token k
NotsBefore(T, k) ==
    IF k > 1 /\ T[k - 1].what = "!" /\ T[k - 1].at = T[k].at - 1
    THEN NotRun(T, k - 1) ELSE 0

\* a negation is pending after token k and no condition token takes it
Dangling(T) ==
    \E k \in DOMAIN T :
        /\ T[k].what = "!"
        /\ NotRun(T, k) % 2 = 1
        /\ ~(/\ k < Len(T)
             /\ T[k + 1].at = T[k].at + 1
             /\ T[k + 1].what \in {"!", CONDITION})

NotMessage == <<"Not operator can only be applied to conditions">>

\* C16 (as claimed): a text with a pending negation that no condition token
\* takes (whitespace, a line break, a comment, '|', another node token or the
\* end of the text follows the '!') parses to an error with a null root, and a
\* tree parsed without error has hasNot only on Condition nodes.
C16_PendingNot ==
    lastOp = "parse" =>
        /\ tree.error = NullError =>
              /\ ~Dangling(Toks)
              /\ \A n \in NodeIds : tree.nodes[n].hasNot => Kind(n) = CONDITION
        /\ tree.root # NullNode => tree.error = NullError

\* the node that the token k of T becomes: its rank among the node tokens
NodeOf(T, k) == Cardinality({j \in 1..k : IsNodeTok(T[j])})

\* C17: in a tree parsed without error the Condition of a condition token
\* with a run of n '!' right before it has hasNot exactly when n is odd; the
\* parse ends with the 'Not operator' error only when some negation is left
\* pending, and a text of one node token, with runs of '!' that all cancel
\* or are taken by the condition, parses without error.
C17_NotRuns ==
    lastOp = "parse" =>
        LET T == Toks
        IN /\ tree.error = NullError =>
                 \A k \in DOMAIN T :
                     T[k].what = CONDITION =>
                         /\ Kind(NodeOf(T, k)) = CONDITION
                         /\ tree.nodes[NodeOf(T, k)].hasNot
                                = (NotsBefore(T, k) % 2 = 1)
           /\ tree.error = NotMessage => Dangling(T)
           /\ (/\ Cardinality({k \in DOMAIN T : IsNodeTok(T[k])}) = 1
               /\ \A k \in DOMAIN T :
                     T[k].what # "bad" /\ (IsNodeTok(T[k]) => T[k].depth = 0)
               /\ ~Dangling(T))
              => tree.error = NullError /\ tree.root = 1

\* C17 witness: under a Fallback, '!!(a)' parsed to a Condition named a that
\* is not negated
C17_Witness ==
    /\ lastOp = "parse"
    /\ tree.error = NullError
    /\ \E k \in DOMAIN Toks :
          /\ Toks[k].what = CONDITION
          /\ NotsBefore(Toks, k) = 2
          /\ NodeOf(Toks, k) = 2
          /\ ~tree.nodes[2].hasNot
          /\ tree.nodes[2].name = <<"a">>

\* the last node token before token k of N that has depth d, or 0
LastAt(N, k, d) ==
    LET S == {j \in 1..(k - 1) : N[j].depth = d}
    IN IF S = {} THEN 0 ELSE CHOOSE j \in S : \A m \in S : m <= j

\* C18 (as claimed): in a tree parsed without error every node but the root
\* has a depth d > 0 and is a child of the node placed last at depth d - 1,
\* and no node of a depth less than d - 1 stands between the two in the text.
C18_ParentBranch ==
    (lastOp = "parse" /\ tree.error = NullError) =>
        LET N == NodeToks
        IN \A k \in 2..Len(N) :
              LET j == LastAt(N, k, N[k].depth - 1)
              IN /\ N[k].depth > 0
                 /\ j # 0
                 /\ k \in Range(tree.nodes[j].children)
                 /\ \A m \in (j + 1)..(k - 1) : N[m].depth >= N[k].depth - 1

\* the number of places in the children arrays of t that hold node n
Placements(t, n) ==
    SeqSum([p \in DOMAIN t.nodes |->
               Cardinality({i \in DOMAIN t.nodes[p].children :
                               t.nodes[p].children[i] = n})])

\* C19: a text with two node tokens at depth 0 parses to an error with a
\* null root; a tree parsed without error has one node per node token of the
\* text, of the token's kind, its root is the only token at depth 0, every
\* node is reachable from the root, and every node but the root is held by
\* exactly one place of one children array, the root by none.
C19_OneRoot ==
    lastOp = "parse" =>
        LET N == NodeToks
        IN /\ Cardinality({k \in DOMAIN N : N[k].depth = 0}) >= 2
                 => tree.root = NullNode /\ tree.error # NullError
           /\ tree.error = NullError =>
                 /\ Len(tree.nodes) = Len(N)
                 /\ tree.root = 1
                 /\ {k \in DOMAIN N : N[k].depth = 0} = {1}
                 /\ Descendants(tree.nodes, tree.root) = DOMAIN tree.nodes
                 /\ \A n \in DOMAIN tree.nodes :
                       /\ Kind(n) = N[n].what
                       /\ Placements(tree, n) = IF n = tree.root THEN 0 ELSE 1

\* C19 witness: a tree of three levels and at least four nodes parsed without
\* error
C19_Witness ==
    /\ lastOp = "parse"
    /\ tree.error = NullError
    /\ Len(tree.nodes) >= 4
    /\ \E k \in DOMAIN NodeToks : Depth(k) = 2

\* C20: in a tree parsed without error no Condition and no Action has
\* children; when the text before a node token parses without error and the
\* node placed last one level above the token is a Condition or an Action,
\* the parse ends with "<kind> node can't have child nodes" and a null root.
C20_Leaves ==
    lastOp = "parse" =>
        LET N == NodeToks
        IN /\ tree.error = NullError =>
                 \A n \in DOMAIN tree.nodes :
                     Kind(n) \in LeafKinds =>
                         tree.nodes[n].children = << >> /\ ~tree.nodes[n].hasChildren
           /\ \A k \in DOMAIN N :
                 LET j == LastAt(N, k, N[k].depth - 1)
                 IN (/\ j # 0
                     /\ N[j].what \in LeafKinds
                     /\ parse(SubSeq(buf, 1, N[k].at - 1)).error = NullError)
                    => /\ tree.root = NullNode
                       /\ tree.error = <<N[j].what, " node can't have child nodes">>

\* C20 witness: a node on the line below an Action that is itself a child
C20_Witness ==
    /\ lastOp = "parse"
    /\ tree.error = <<ACTION_KIND, " node can't have child nodes">>
    /\ \E k \in DOMAIN NodeToks :
          /\ Depth(k) = 2
          /\ LastAt(NodeToks, k, 1) # 0
          /\ NodeToks[LastAt(NodeToks, k, 1)].what = ACTION_KIND
          /\ NodeToks[k].at > NodeToks[LastAt(NodeToks, k, 1)].at + 4

\* C14 (as claimed): whatever statuses setConditionStatus was called with,
\* status() of every Condition node is FAILED or SUCCESS, and no tick() of a
\* Condition returns RUNNING.
C14_ConditionNeverRunning ==
    /\ \A n \in NodeIds :
           Kind(n) = CONDITION => Status(tree.nodes[n]) \in {FAILED, SUCCESS}
    /\ \A k \in DOMAIN returned :
           Kind(returned[k].node) = CONDITION => returned[k].value # RUNNING

\* the names of the nodes of kind k that the root reaches
NamesOfKind(k) ==
    {tree.nodes[n].name :
        n \in {m \in ReachableNodes(tree) : tree.nodes[m].kind = k}}

\* a getter asked for a name that no node of its kind has answers -1
C15_Read ==
    /\ (call.op = "getConditionStatus" /\ call.name \notin NamesOfKind(CONDITION))
           => call.result = NOT_FOUND
    /\ (call.op = "getActionStatus" /\ call.name \notin NamesOfKind(ACTION_KIND))
           => call.result = NOT_FOUND

\* a setter called with a name that no node of its kind has changes no node
C15_Frame ==
    /\ (call'.op = "setConditionStatus" /\ call'.name \notin NamesOfKind(CONDITION))
           => tree' = tree
    /\ (call'.op = "setActionStatus" /\ call'.name \notin NamesOfKind(ACTION_KIND))
           => tree' = tree

\* C15: getConditionStatus and getActionStatus return -1 for a name that is
\* not a name of a node of their kind (a name of no node, or of a node of the
\* other kind only), and setConditionStatus and setActionStatus with such a
\* name leave every node as it was: status, active flag and wasActive.
C15_MissingNames == [](C15_Read) /\ [][C15_Frame]_vars

\* C15 witness: in a tree that was ticked, getActionStatus asked for the name
\* of a condition has answered -1
C15_Witness ==
    /\ call.op = "getActionStatus"
    /\ call.name \in NamesOfKind(CONDITION)
    /\ call.result = NOT_FOUND
    /\ \E n \in NodeIds : tree.nodes[n].active

\* the times node n occurs in the sequence q
Occurrences(q, n) == LET Is(x) == x = n IN CountIn(q, Is)

\* C11: a tick() of the action 'eat' to which the callback of the README is
\* subscribed returns SUCCESS, the status that callback gives the action
\* while the tick runs, and a Fallback that holds the action as a child
\* returns SUCCESS right after it.
C11_StatusAfterCallbacks ==
    lastOp = "tick" =>
        \A k \in DOMAIN returned :
            LET n == returned[k].node
            IN (/\ Kind(n) = ACTION_KIND
                /\ tree.nodes[n].name = EatName
                /\ Subscriptions(n, EatHandler) > 0)
               => /\ returned[k].value = SUCCESS
                  /\ (/\ k < Len(returned)
                      /\ Kind(returned[k + 1].node) = FALLBACK
                      /\ n \in Range(Kids(returned[k + 1].node)))
                     => returned[k + 1].value = SUCCESS

\* C11 witness: the tick of the README after 'have hunger' was set: the
\* callback ran once, for the active action, and the root returned SUCCESS
C11_Witness ==
    /\ lastOp = "tick"
    /\ buf = HungerText
    /\ ticked = <<1, 2, 3>>
    /\ Len(log) = 1 /\ log[1].cb = EatHandler /\ log[1].active
    /\ returned = <<[node |-> 2, value |-> FAILED, depth |-> 0],
                    [node |-> 3, value |-> SUCCESS, depth |-> 0],
                    [node |-> 1, value |-> SUCCESS, depth |-> 0]>>
    /\ ret = SUCCESS
    /\ tree.nodes[2].nodeStatus = FAILED

\* the callbacks subscribed to the tree or to one of its nodes
SubscribedHandlers ==
    Range(tree.actionActivationCallbacks)
    \cup UNION {Range(tree.nodes[n].actionActivationCallback) \ {AnyActionActivation} :
                  n \in NodeIds}

\* the callback of the test is the only subscription
OnlyRetick == Subs(tree) = 1 /\ SubscribedHandlers = {RetickHandler}

\* C12: a tick throws (its nesting of ticks does not end) only when a tick
\* made by a callback reaches an action a second time; with the callback
\* that sets the condition and re-ticks as the only subscription, an action
\* that the nested ticks do not reach again has the callback invoked once,
\* the tick after a tick that invoked it invokes nothing, and in the tree of
\* the test every tick ends and invokes it at most once.
C12_RetickOnce ==
    lastOp = "tick" =>
        /\ ret = Thrown =>
              \E n \in NodeIds : Kind(n) = ACTION_KIND /\ Occurrences(ticked, n) >= 2
        /\ (ret # Thrown /\ OnlyRetick) =>
              \A n \in NodeIds :
                  (/\ Kind(n) = ACTION_KIND
                   /\ Subscriptions(n, RetickHandler) = 1
                   /\ Occurrences(ticked, n) = 1)
                  => Invocations(n, RetickHandler) = 1
        /\ (prevOp = "tick" /\ prevFired > 0 /\ OnlyRetick) => Len(log) = 0
        /\ (buf = FlatText(FallbackTok, 2) /\ OnlyRetick)
              => ret # Thrown /\ Len(log) <= 1

\* C12 witness: the first tick of the test: the callback ran once, set the
\* condition and ticked the tree again, which stopped at the condition
C12_Witness ==
    /\ lastOp = "tick"
    /\ buf = FlatText(FallbackTok, 2)
    /\ tree.actionActivationCallbacks = <<RetickHandler>>
    /\ ticked = <<1, 2, 3, 1, 2>>
    /\ Len(log) = 1 /\ log[1].node = 3 /\ log[1].depth = 0
    /\ ret = RUNNING
    /\ tree.nodes[2].nodeStatus = SUCCESS

\* C13: in a tick that ends, a callback is invoked for an Action node once
\* for each tick() of that node and each subscription of the callback, to the
\* tree with onActionActivation or to the node; every invocation is for an
\* Action node of the tree that the tick reached, while it is active.  (What
\* a deactivate() invokes is not part of this statement.)
C13_TreeCallbacks ==
    (lastOp = "tick" /\ ret # Thrown) =>
        /\ \A n \in NodeIds, h \in ReactHandlers :
              Kind(n) = ACTION_KIND =>
                  Invocations(n, h)
                      = Occurrences(ticked, n)
                        * (Occurrences(tree.actionActivationCallbacks, h)
                           + Occurrences(tree.nodes[n].actionActivationCallback, h))
        /\ \A k \in DOMAIN log :
              /\ log[k].node \in TickedSet
              /\ Kind(log[k].node) = ACTION_KIND
              /\ log[k].active

\* C13 witness: a tree built by fromJson, with one callback subscribed by
\* onActionActivation afterwards, whose tick reached two actions
C13_Witness ==
    /\ lastOp = "tick"
    /\ built = "fromJson"
    /\ Len(tree.actionActivationCallbacks) = 1
    /\ Len(log) = 2
    /\ log[1].node # log[2].node
    /\ log[1].cb = log[2].cb

\* ------------------------------------------------------ parallel thresholds
\* the digit run right after the '=' at position at of the text
RunAfter(text, at) == SubSeq(text, at + 1, DigitsEnd(text, at + 1) - 1)

RECURSIVE IntBitsOf(_)
\* the numeral of a natural number
IntBitsOf(v) == IF v = 0 THEN << >> ELSE <<v % 2>> \o IntBitsOf(v \div 2)

\* the numeral of the successCount v parsed from the digit run
Numeral(v, run) == IF Big(run) THEN v.bits ELSE IntBitsOf(v)

RECURSIVE DecimalValue(_)
\* the value of a short digit run, by positional notation
DecimalValue(run) ==
    IF run = << >> THEN 0
    ELSE 10 * DecimalValue(SubSeq(run, 1, Len(run) - 1)) + DigitValue(run[Len(run)])

\* an '=' token that no digit, or a digit run of value 0, follows
BadThreshold(T) ==
    \E k \in DOMAIN T :
        /\ T[k].what = "bad"
        /\ buf[T[k].at] = "="

\* C21 (as claimed): every Parallel node of a tree parsed without error has
\* a successCount >= 1 that is the decimal value of the digit run after its
\* '='; an '=' with no digit or with a run of value 0 after it is an error.
C21_ExactThreshold ==
    lastOp = "parse" =>
        /\ tree.error = NullError =>
              \A k \in DOMAIN Toks :
                  Toks[k].what = PARALLEL =>
                      LET sc == tree.nodes[NodeOf(Toks, k)].successCount
                          run == RunAfter(buf, Toks[k].at)
                      IN /\ Numeral(sc, run) # << >>
                         /\ Numeral(sc, run) = Bits(run)
        /\ BadThreshold(Toks) => tree.error # NullError /\ tree.root = NullNode

\* C21 (amended): every Parallel node of a tree parsed without error has
\* a successCount >= 1 that is the Number parseInt gives for the digit run
\* after its '=': the decimal value of the run when that is at most 2^53 (a
\* numeral of at most 53 bits is every such value), else the nearest Number;
\* an '=' with no digit or with a run of value 0 after it is an error with a
\* null root.
C21_Threshold ==
    lastOp = "parse" =>
        /\ tree.error = NullError =>
              \A k \in DOMAIN Toks :
                  Toks[k].what = PARALLEL =>
                      LET sc == tree.nodes[NodeOf(Toks, k)].successCount
                          run == RunAfter(buf, Toks[k].at)
                      IN /\ Kind(NodeOf(Toks, k)) = PARALLEL
                         /\ Numeral(sc, run) # << >>
                         /\ Len(run) <= 9 => sc = DecimalValue(run)
                         /\ Len(Bits(run)) <= Significand =>
                                Numeral(sc, run) = Bits(run)
                         /\ Numeral(sc, run) = NumberOf(Bits(run))
        /\ BadThreshold(Toks) => tree.error # NullError /\ tree.root = NullNode

\* a Parallel with the two-digit threshold 12 of the test 'parses parallel'
\* has been parsed, with an Action below it
C21_Witness ==
    /\ lastOp = "parse"
    /\ tree.error = NullError
    /\ buf = JoinLines(<<<<"=", "1", "2">>, Line(1, ActionTok(<<"b">>))>>)
    /\ tree.nodes[tree.root].successCount = 12
    /\ Len(tree.nodes[tree.root].children) = 1

\* ---------------------------------------------------------------- comments
\* the message names the text what; a message is kept in the pieces it is
\* put together from, and what is one of them or none
Mentions(err, what) == err # NullError /\ \E k \in DOMAIN err : err[k] = what

\* the positions of the text where the parser reads a ';' that no second ';'
\* follows: the tokens before it are well formed and placed without error
LoneSemicolons ==
    {a \in DOMAIN buf :
        /\ Toks # << >>
        /\ Toks[Len(Toks)] = Tok("bad", a, Toks[Len(Toks)].depth)
        /\ buf[a] = ";"
        /\ parse(SubSeq(buf, 1, a - 1)).error \in {NullError, NoNodeMessage}}

\* C22 (as claimed): a text in which the parser comes to a ';' that is
\* followed by another character than ';', or by the end of the text, parses
\* to an error whose message contains ';;'.
C22_LoneSemicolon ==
    lastOp = "parse" /\ LoneSemicolons # {} =>
        /\ tree.root = NullNode
        /\ Mentions(tree.error, ";;")

RECURSIVE StripComments(_, _)
\* the text from position i on without its comments: each ';;' outside a
\* condition or action name is removed with what follows it on its line
StripComments(text, i) ==
    IF i > Len(text) THEN << >>
    ELSE LET ch == text[i]
             close == IF ch = "(" THEN Find(text, i + 1, ")")
                      ELSE IF ch = "[" THEN Find(text, i + 1, "]")
                      ELSE i
             e == IF close = 0 THEN Len(text) ELSE close
         IN IF ch = ";" /\ i < Len(text) /\ text[i + 1] = ";"
            THEN StripComments(text, LineEnd(text, i + 2))
            ELSE SubSeq(text, i, e) \o StripComments(text, e + 1)

\* C23 (as claimed): the text without its comments parses to the same
\* outcome, error or success, and on success to the same nodes (shape, kinds,
\* names, negation flags, lines).
C23_CommentsIgnored ==
    lastOp = "parse" =>
        LET bare == parse(StripComments(buf, 1))
        IN /\ (tree.error = NullError) = (bare.error = NullError)
           /\ tree.error = NullError =>
                 /\ tree.root = bare.root
                 /\ tree.nodes = bare.nodes

\* ------------------------------------------------------------ name maps
RECURSIVE Preorder(_, _)
RECURSIVE PreorderKids(_, _, _)
\* the nodes below n and n itself, a parent before its children and the
\* children in their order
Preorder(heap, n) == <<n>> \o PreorderKids(heap, n, 1)
PreorderKids(heap, n, i) ==
    IF i > Len(heap[n].children) THEN << >>
    ELSE Preorder(heap, heap[n].children[i]) \o PreorderKids(heap, n, i + 1)

\* the nodes of the tree t of the kind and the name, in preorder
Named(t, kind, name) ==
    LET Is(n) == t.nodes[n].kind = kind /\ t.nodes[n].name = name
    IN SelectSeq(Preorder(t.nodes, t.root), Is)

\* the map holds, per name, the nodes of the kind with that name
Mirrors(t, map, kind) ==
    /\ DOMAIN map = {t.nodes[n].name :
                        n \in {m \in Descendants(t.nodes, t.root) :
                                  t.nodes[m].kind = kind}}
    /\ \A name \in DOMAIN map : map[name] = Named(t, kind, name)

\* the position in the text of the token of the node n of a parsed tree (a
\* rebuilt tree keeps of it only the line)
PosOfNode(n) == NodeToks[n].at

\* C24 (as claimed): after parse and after fromJson the conditions map holds, for each
\* name, the Condition nodes of the tree with that name, each once and in
\* the order of their tokens in the text, and no other key; the actions map
\* does the same for the Action nodes; no Fallback, Sequence or Parallel is in
\* a map, and the maps of a tree without root are empty.
C24_NameMaps ==
    lastOp \in {"parse", "fromJson"} =>
        IF tree.root = NullNode
        THEN DOMAIN tree.conditions = {} /\ DOMAIN tree.actions = {}
        ELSE /\ Mirrors(tree, tree.conditions, CONDITION)
             /\ Mirrors(tree, tree.actions, ACTION_KIND)
             /\ \A name \in DOMAIN tree.conditions \cup DOMAIN tree.actions :
                    LET list == IF name \in DOMAIN tree.conditions
                                THEN tree.conditions[name] ELSE tree.actions[name]
                    IN \A i, j \in DOMAIN list :
                          i < j =>
                              IF lastOp = "parse"
                              THEN PosOfNode(list[i]) < PosOfNode(list[j])
                              ELSE tree.nodes[list[i]].line
                                       <= tree.nodes[list[j]].line

\* ------------------------------------------------- statuses after a tick
\* the children of n, by index, whose status() is v
KidsWith(n, v) == {i \in DOMAIN Kids(n) : Status(tree.nodes[Kids(n)[i]]) = v}

\* C25 (as claimed): after a tick, a ticked Parallel with threshold N and
\* fewer than N children in SUCCESS is FAILED exactly when the number of its
\* children in FAILED is greater than (its number of children in SUCCESS
\* minus N), and RUNNING otherwise.
C25_ParallelBelow ==
    lastOp = "tick" =>
        \A n \in TickedSet : Kind(n) = PARALLEL =>
            LET N == tree.nodes[n].successCount
                sc == Cardinality(KidsWith(n, SUCCESS))
                fl == Cardinality(KidsWith(n, FAILED))
            IN sc < N =>
                  Status(tree.nodes[n]) = (IF fl > sc - N THEN FAILED ELSE RUNNING)

\* the second of two ticks of the root with no status change in between
\* leaves the value v of every node as it was after the first
Same(v(_, _)) == \A n \in NodeIds : v(tree', n) = v(tree, n)
StatusIn(t, n) == t.nodes[n].nodeStatus
ActiveIn(t, n) == t.nodes[n].active

\* C26 (as claimed): a tick of the root that follows a tick of the root, with
\* or without a deactivate of the root before it and with no status change in
\* between, returns what the first returned and leaves the status and the
\* active flag of every node as they were after the first.
C26_Idempotent ==
    [][(lastOp = "tick" /\ lastOp' = "tick") =>
          /\ ret' = ret
          /\ Same(StatusIn)
          /\ Same(ActiveIn)]_vars

\* C26 (amended): the second tick returns what the first returned and leaves
\* the status of every node as it was; without a deactivate before it the
\* active flags are as they were too; with one, the active nodes are the
\* nodes the second tick visits, the same nodes in the same order as the
\* first visited, and a node left active by an earlier tick is inactive.
C26_Repeat ==
    [][(lastOp = "tick" /\ lastOp' = "tick") =>
          /\ ret' = ret
          /\ Same(StatusIn)
          /\ ticked' = ticked
          /\ returned' = returned
          /\ prevOp' = "tick" => Same(ActiveIn)
          /\ prevOp' = "deactivate" =>
                \A n \in NodeIds :
                    /\ tree'.nodes[n].active <=> n \in Range(ticked')
                    /\ tree'.nodes[n].active => tree.nodes[n].active]_vars

\* a tick right after a tick has returned on a tree with a node that it did
\* not visit and that an earlier tick left active
C26_Witness ==
    /\ lastOp = "tick" /\ prevOp = "tick"
    /\ \E n \in NodeIds : n \notin TickedSet /\ tree.nodes[n].active

\* --------------------------------------------------- ticks inside a tick
RECURSIVE Eval(_, _)
\* the status of node n that its kind's rule gives for the statuses the
\* leaves below it have in the heap
Eval(heap, n) ==
    LET kids == heap[n].children
        of(i) == Eval(heap, kids[i])
        k == heap[n].kind
    IN CASE k = FALLBACK ->
              LET S == {i \in DOMAIN kids : of(i) \in {SUCCESS, RUNNING}}
              IN IF S = {} THEN FAILED
                 ELSE of(CHOOSE i \in S : \A j \in S : i <= j)
         [] k = SEQUENCE ->
              LET S == {i \in DOMAIN kids : of(i) \in {FAILED, RUNNING}}
              IN IF S = {} THEN SUCCESS
                 ELSE of(CHOOSE i \in S : \A j \in S : i <= j)
         [] k = PARALLEL ->
              LET sc == Cardinality({i \in DOMAIN kids : of(i) = SUCCESS})
                  fl == Cardinality({i \in DOMAIN kids : of(i) = FAILED})
              IN IF sc >= heap[n].successCount THEN SUCCESS
                 ELSE IF fl > Len(kids) - heap[n].successCount THEN FAILED
                 ELSE RUNNING
         [] OTHER -> Status(heap[n])

Combinators == {FALLBACK, SEQUENCE, PARALLEL}

\* the nodes whose tick() the outermost tick called itself, and the value
\* that call returned
OuterSet == {returned[k].node : k \in {j \in DOMAIN returned : returned[j].depth = 0}}
OuterRet(n) ==
    returned[CHOOSE k \in DOMAIN returned :
                 returned[k].node = n /\ returned[k].depth = 0].value

\* some callback of the last operation ticked the tree
Reticked == \E k \in DOMAIN returned : returned[k].depth > 0

\* C27 (as claimed): once a tick of the root has returned in which a
\* callback changed a status and ticked the tree, the status of the root and
\* of every Fallback, Sequence and Parallel that the outermost tick visited
\* is what the node's rule gives for the statuses the leaves have then.
C27_NestedResult ==
    (lastOp = "tick" /\ ret # Thrown /\ Reticked) =>
        /\ Status(tree.nodes[tree.root]) = Eval(tree.nodes, tree.root)
        /\ \A n \in OuterSet :
              Kind(n) \in Combinators => tree.nodes[n].nodeStatus = Eval(tree.nodes, n)

\* C27 (amended): once such a tick has returned, the status of the root is
\* the value the outermost tick returned, which is what the rule of the
\* root gives for the values that the tick() calls of its children returned
\* to the outermost tick: of a Fallback the value of the first child that
\* returned SUCCESS or RUNNING (no later child is called) or FAILED, of a
\* Sequence the value of the first child that returned FAILED or RUNNING or
\* SUCCESS, of a Parallel the result of counting all of them.
C27_OuterResult ==
    (lastOp = "tick" /\ ret # Thrown /\ Reticked) =>
        LET r == tree.root
            called == {i \in DOMAIN Kids(r) : Kids(r)[i] \in OuterSet}
            val(i) == OuterRet(Kids(r)[i])
            m == Cardinality(called)
            sc == Cardinality({i \in called : val(i) = SUCCESS})
            fl == Cardinality({i \in called : val(i) = FAILED})
        IN /\ r \in OuterSet
           /\ ret = OuterRet(r)
           /\ Status(tree.nodes[r]) = ret
           /\ called = 1..m
           /\ Kind(r) = FALLBACK =>
                 /\ \A i \in 1..(m - 1) : val(i) = FAILED
                 /\ ret = IF m = 0 THEN FAILED ELSE val(m)
                 /\ (m < Len(Kids(r))) => val(m) \in {SUCCESS, RUNNING}
           /\ Kind(r) = SEQUENCE =>
                 /\ \A i \in 1..(m - 1) : val(i) = SUCCESS
                 /\ ret = IF m = 0 THEN SUCCESS ELSE val(m)
                 /\ (m < Len(Kids(r))) => val(m) \in {FAILED, RUNNING}
           /\ Kind(r) = PARALLEL =>
                 /\ m = Len(Kids(r))
                 /\ ret = (IF sc >= tree.nodes[r].successCount THEN SUCCESS
                           ELSE IF fl > m - tree.nodes[r].successCount THEN FAILED
                           ELSE RUNNING)

\* the first tick of the test 'notify about action activation only once!' has
\* returned: the callback set the condition to SUCCESS and ticked the tree,
\* which made the Fallback SUCCESS, and the outermost tick then made it
\* RUNNING, the value of the action
C27_Witness ==
    /\ lastOp = "tick" /\ Reticked
    /\ buf = FlatText(FallbackTok, 2)
    /\ tree.actionActivationCallbacks = <<RetickHandler>>
    /\ ret = RUNNING
    /\ Status(tree.nodes[tree.root]) = RUNNING
    /\ Eval(tree.nodes, tree.root) = SUCCESS
    /\ \E k \in DOMAIN returned :
          returned[k] = [node |-> tree.root, value |-> SUCCESS, depth |-> 1]

RECURSIVE Visited(_, _)
\* the nodes that evaluating node n on the statuses of the leaves visits
Visited(heap, n) ==
    LET kids == heap[n].children
        stops(i) == CASE heap[n].kind = FALLBACK ->
                           Eval(heap, kids[i]) \in {SUCCESS, RUNNING}
                      [] heap[n].kind = SEQUENCE ->
                           Eval(heap, kids[i]) \in {FAILED, RUNNING}
                      [] OTHER -> FALSE
    IN {n} \cup UNION {Visited(heap, kids[i]) :
                          i \in {j \in DOMAIN kids :
                                    \A m \in 1..(j - 1) : ~stops(m)}}

\* C28 (as claimed): a tick in which a callback of an action has called
\* deactivate() on the root and ticked the tree ends, without exhausting the
\* call stack, when the statuses the callback left no longer lead to that
\* action, and afterwards exactly the nodes that evaluating the tree visits
\* are active.
C28_CycleInCallback ==
    (/\ lastOp = "tick"
     /\ log # << >>
     /\ \A k \in DOMAIN log :
           /\ log[k].cb = CycleHandler
           /\ log[k].node \notin Visited(tree.nodes, tree.root))
    => /\ ret # Thrown
       /\ \A n \in NodeIds :
             tree.nodes[n].active <=> n \in Visited(tree.nodes, tree.root)

\* C29 (as claimed): a callback is invoked only when the active flag of its
\* Action is set to true, so a deactivate() of the root invokes none.
C29_OnlyOnActivation ==
    /\ \A k \in DOMAIN log : log[k].active
    /\ lastOp = "deactivate" => log = << >>

\* the status that the rule of the combinator n gives for the statuses its
\* children have in the heap
Combine(heap, n) ==
    LET kids == heap[n].children
        of(i) == Status(heap[kids[i]])
        k == heap[n].kind
    IN CASE k = FALLBACK ->
              LET S == {i \in DOMAIN kids : of(i) \in {SUCCESS, RUNNING}}
              IN IF S = {} THEN FAILED
                 ELSE of(CHOOSE i \in S : \A j \in S : i <= j)
         [] k = SEQUENCE ->
              LET S == {i \in DOMAIN kids : of(i) \in {FAILED, RUNNING}}
              IN IF S = {} THEN SUCCESS
                 ELSE of(CHOOSE i \in S : \A j \in S : i <= j)
         [] k = PARALLEL ->
              LET sc == Cardinality({i \in DOMAIN kids : of(i) = SUCCESS})
                  fl == Cardinality({i \in DOMAIN kids : of(i) = FAILED})
              IN IF sc >= heap[n].successCount THEN SUCCESS
                 ELSE IF fl > Len(kids) - heap[n].successCount THEN FAILED
                 ELSE RUNNING

\* C30 (as claimed): after a tick of the root every Fallback, Sequence and
\* Parallel of the tree, visited by that tick or not, has the status that its
\* rule gives for the statuses its children have then.
C30_AllCombinators ==
    lastOp = "tick" =>
        \A n \in NodeIds :
            Kind(n) \in Combinators => tree.nodes[n].nodeStatus = Combine(tree.nodes, n)

\* after a tick of the root every combinator that the tick visited has the
\* status that its rule gives for the statuses its children have then
C30_Read ==
    lastOp = "tick" =>
        \A n \in TickedSet :
            Kind(n) \in Combinators => tree.nodes[n].nodeStatus = Combine(tree.nodes, n)

\* a tick of the root leaves the status of every node it does not visit as
\* it was
C30_Frame ==
    lastOp' = "tick" =>
        \A n \in NodeIds :
            n \notin Range(ticked') => tree'.nodes[n].nodeStatus = tree.nodes[n].nodeStatus

\* C30 (amended): after a tick of the root every Fallback, Sequence and
\* Parallel that the tick visited has the status that its rule gives for the
\* statuses its children have then; one that the tick did not visit keeps
\* the status it had before the tick, whatever its children's statuses are.
C30_VisitedCombinators == [](C30_Read) /\ [][C30_Frame]_vars

\* a tick has returned that visited the root, a combinator with children,
\* and did not visit a combinator below it whose status, set by an earlier
\* tick, is not what its rule gives for the statuses its children have now
C30_Witness ==
    /\ lastOp = "tick"
    /\ Kind(tree.root) \in Combinators /\ Len(Kids(tree.root)) >= 2
    /\ tree.nodes[tree.root].nodeStatus = Combine(tree.nodes, tree.root)
    /\ \E n \in NodeIds \ TickedSet :
          /\ Kind(n) \in Combinators
          /\ tree.nodes[n].nodeStatus # Combine(tree.nodes, n)

\* ------------------------------------------------------------ C31
\* the nodes whose active flag is set
ActiveSet(t) == {n \in DOMAIN t.nodes : t.nodes[n].active}
\* the nodes that have been active and were then deactivated
WasActiveSet(t) == {n \in DOMAIN t.nodes : t.nodes[n].wasActive}

\* C31: a tick of a node clears the active flag of no node and leaves
\* wasActive of every node as it was; a node an earlier tick visited stays
\* active when this tick does not reach it, so the active nodes after the
\* tick are those active before together with those the tick visited, and
\* right after a deactivate of the root they are the nodes the tick visited.
C31_TickOnlyActivates ==
    [][lastOp' = "tick" =>
          /\ ActiveSet(tree') = ActiveSet(tree) \cup Range(ticked')
          /\ WasActiveSet(tree') = WasActiveSet(tree)
          /\ (lastOp = "deactivate" /\ call.node = tree.root)
                => ActiveSet(tree') = Range(ticked')]_vars

\* a tick that followed a tick with no deactivate in between has returned;
\* it stopped before a node that the earlier tick visited, which is still
\* active, and a deactivate before both has set wasActive on some node
C31_Witness ==
    /\ lastOp = "tick" /\ prevOp \in {"tick", "other"}
    /\ call.node = tree.root
    /\ \E n \in NodeIds : n \notin TickedSet /\ tree.nodes[n].active
    /\ WasActiveSet(tree) # {}

\* ------------------------------------------------------------ C32
\* the tree t after n.deactivate() as the claim has it: the nodes of the
\* subtree of n inactive, those of them that were active marked wasActive
Deactivated(t, n) ==
    LET sub == Descendants(t.nodes, n)
    IN [t EXCEPT !.nodes =
           [m \in DOMAIN t.nodes |->
               IF m \in sub
               THEN [t.nodes[m] EXCEPT !.active = FALSE,
                                       !.wasActive = @ \/ t.nodes[m].active]
               ELSE t.nodes[m]]]

\* C32: deactivate() on a node clears the active flag of the node and of
\* every node below it and leaves the rest as it was: the status, the
\* negation flag and the children of every node, the name maps, and the
\* active flag of every node outside the subtree (wasActive is set on the
\* nodes of the subtree that were active).
C32_DeactivateFrame ==
    [][lastOp' = "deactivate" => tree' = Deactivated(tree, call'.node)]_vars

\* a deactivate of a node below the root has returned: a node of its subtree
\* was active before (it is marked wasActive and has a status other than the
\* initial one) and a node outside the subtree is still active
C32_Witness ==
    /\ lastOp = "deactivate" /\ call.node # tree.root
    /\ \E m \in Descendants(tree.nodes, call.node) :
          /\ tree.nodes[m].wasActive
          /\ tree.nodes[m].nodeStatus # FAILED
    /\ \E m \in NodeIds \ Descendants(tree.nodes, call.node) :
          m # tree.root /\ tree.nodes[m].active

\* ------------------------------------------------------------ C33
C33_Start == lastOp = "parse" => WasActiveSet(tree) = {}

C33_Step ==
    \A n \in NodeIds :
        tree'.nodes[n].wasActive
            <=> \/ tree.nodes[n].wasActive
                \/ tree.nodes[n].active /\ ~tree'.nodes[n].active

\* C33: wasActive of a node is false when the tree is built and after a tick,
\* a deactivate or a status change it is true exactly when it was true before
\* or the call changed the active flag of the node from true to false: a
\* first tick leaves it false, the deactivate of a node that is not active
\* leaves it false, the deactivate of an active node sets it, and nothing
\* resets it.
C33_WasActive == [](C33_Start) /\ [][C33_Step]_vars

\* a node that was deactivated while active has been ticked again and is
\* still marked wasActive, next to a node that was deactivated without ever
\* having been active and is not marked
C33_Witness ==
    /\ lastOp = "tick"
    /\ \E n \in NodeIds : tree.nodes[n].wasActive /\ tree.nodes[n].active
    /\ \E n \in NodeIds : ~tree.nodes[n].wasActive /\ ~tree.nodes[n].active

\* ------------------------------------------------------------ C34
\* the Parallel nodes the last operation ticked whose threshold is greater
\* than the number of their children
ShortParallels ==
    {n \in TickedSet : /\ Kind(n) = PARALLEL
                        /\ tree.nodes[n].successCount > Len(Kids(n))}

\* C34: the tick of a Parallel whose threshold is greater than the number of
\* its children, a Parallel with no children among them, returns FAILED and
\* leaves the node FAILED, whatever the statuses of its children are.
C34_ShortParallel ==
    lastOp = "tick" =>
        \A n \in ShortParallels :
            RetOf(n) = FAILED /\ tree.nodes[n].nodeStatus = FAILED

\* a Parallel with a threshold above the number of its children was ticked
\* while every child returned SUCCESS
C34_Witness ==
    /\ lastOp = "tick"
    /\ \E n \in ShortParallels :
          /\ Len(Kids(n)) >= 2
          /\ \A k \in DOMAIN Kids(n) : RetOf(Kids(n)[k]) = SUCCESS

\* ------------------------------------------------------------ C35
\* the Condition or Action nodes of the tree that carry the name
Carriers(kind, name) ==
    {n \in Descendants(tree.nodes, tree.root) :
        Kind(n) = kind /\ tree.nodes[n].name = name}

\* C35: in a tree that parse built, after any setConditionStatus,
\* setActionStatus, tick and deactivate calls, the Condition nodes of one
\* name have the same raw status and the Action nodes of one name have the
\* same status; a set call has given its status to every node of the name.
C35_SharedStatus ==
    tree.root # NullNode =>
        /\ \A n, m \in Descendants(tree.nodes, tree.root) :
              (/\ Kind(n) = Kind(m) /\ Kind(n) \in {CONDITION, ACTION_KIND}
               /\ tree.nodes[n].name = tree.nodes[m].name)
              => tree.nodes[n].nodeStatus = tree.nodes[m].nodeStatus
        /\ lastOp = "setConditionStatus" =>
              \A n \in Carriers(CONDITION, call.name) :
                  tree.nodes[n].nodeStatus = call.status
        /\ lastOp = "setActionStatus" =>
              \A n \in Carriers(ACTION_KIND, call.name) :
                  tree.nodes[n].nodeStatus = call.status

\* setConditionStatus has given a status other than the initial one to a
\* name that two Condition nodes carry, in a tree in which two Action nodes
\* share a name and a status other than the initial one
C35_Witness ==
    /\ lastOp = "setConditionStatus"
    /\ Cardinality(Carriers(CONDITION, call.name)) >= 2
    /\ call.status = SUCCESS
    /\ \E a \in DOMAIN tree.actions :
          /\ Cardinality(Carriers(ACTION_KIND, a)) >= 2
          /\ \A n \in Carriers(ACTION_KIND, a) : tree.nodes[n].nodeStatus = FAILED

\* ------------------------------------------------------------ C36
\* C36: right after setConditionStatus(name, s) with s FAILED or SUCCESS on
\* a name of the tree, getConditionStatus(name) returns s, whether the
\* Condition nodes of the name are negated or not; right after
\* setActionStatus(name, s), getActionStatus(name) returns s.
C36_GetAfterSet ==
    /\ (/\ lastOp = "setConditionStatus"
        /\ call.name \in DOMAIN tree.conditions
        /\ call.status \in {FAILED, SUCCESS})
       => getConditionStatus(tree, call.name) = call.status
    /\ (/\ lastOp = "setActionStatus"
        /\ call.name \in DOMAIN tree.actions)
       => getActionStatus(tree, call.name) = call.status

\* ------------------------------------------------------------ C37
\* 1 plus the number of line breaks of the text before position p; a
\* '\r\n' pair is one line break
LineAt(text, p) ==
    1 + Cardinality({j \in 1..(p - 1) :
                        \/ text[j] = "\r"
                        \/ text[j] = "\n" /\ (j = 1 \/ text[j - 1] # "\r")})

\* C37: the line recorded on each node of a tree parsed without error is
\* 1 plus the number of line breaks of the text before the token of the
\* node, and the line reported with an error met at the end of the text is
\* 1 plus the number of line breaks of the text, line breaks inside condition
\* and action names counted.
C37_Lines ==
    lastOp = "parse" =>
        /\ tree.error = NullError =>
              \A k \in DOMAIN NodeToks :
                  tree.nodes[k].line = LineAt(buf, NodeToks[k].at)
        /\ (tree.error # NullError /\ Mentions(tree.error, "EOF"))
              => tree.line = LineAt(buf, Len(buf) + 1)

\* ------------------------------------------------------------ C38
ServeKeys ==
    {fullActionName(a, ps) : a \in ServeActions, ps \in ServeParams}

\* the /start requests for the key whose response is one of replies
\* (0: none sent yet)
Starts(key, replies) ==
    {r \in DOMAIN server.requests :
        /\ server.requests[r].kind = "start"
        /\ server.requests[r].key = key
        /\ server.requests[r].reply \in replies}

\* C38: whatever the order of the /start requests and of the completions of
\* the file loads, at most one /start for a key is being loaded or has been
\* accepted with 202, every other /start for the key is answered 409, and
\* the tree of the key is the one the accepted request loaded, never
\* replaced by a second one.
C38_OneStart ==
    \A key \in ServeKeys :
        /\ Cardinality(Starts(key, {0, 202})) <= 1
        /\ key \in DOMAIN server.trees =>
              Starts(key, {202}) = {server.trees[key].by}

\* ------------------------------------------------------------ C39
\* C39: after a /stop request for a key the key has no tree among the live
\* trees, and a /start for the key that comes right after the /stop is not
\* answered 409.
C39_StopDiscards ==
    LET q == server.requests
    IN /\ (q # << >> /\ q[Len(q)].kind = "stop")
             => q[Len(q)].key \notin DOMAIN server.trees
       /\ \A r \in 2..Len(q) :
             (/\ q[r - 1].kind = "stop" /\ q[r].kind = "start"
              /\ q[r].key = q[r - 1].key)
             => q[r].reply # 409

\* ------------------------------------------------------------ C40
RECURSIVE Forward(_, _, _)
\* what the callbacks of /start post downstream for the callback
\* invocations calls[i..] of an evaluation that ends with the tree t
Forward(t, calls, i) ==
    IF i > Len(calls) THEN << >>
    ELSE LET c == calls[i]
             rest == Forward(t, calls, i + 1)
         IN IF c.cb = StartActionHandler
            THEN startAction(<< >>, [name |-> t.nodes[c.node].name,
                                     active |-> c.active]) \o rest
            ELSE rest

\* the actions that an evaluation of the tree t activates and forwards
Selects(t) ==
    IF t.root = NullNode THEN << >>
    ELSE LET E == Tick(Exec(t), t.root) IN Forward(E.tree, E.log, 1)

\* an /update request has just set condition values with which the
\* evaluation of a live tree selects an action
UpdateSelects ==
    LET q == server.requests
    IN /\ q # << >> /\ q[Len(q)].kind = "update" /\ q[Len(q)].reply = 202
       /\ \E k \in DOMAIN server.trees : Selects(server.trees[k].tree) # << >>

\* the start of an action that the evaluation of a live tree selects has
\* been posted downstream
Forwarded ==
    \E k \in DOMAIN server.trees :
        \E i \in DOMAIN Selects(server.trees[k].tree) :
            \E j \in DOMAIN server.posts :
                server.posts[j] = Selects(server.trees[k].tree)[i]

\* C40: when an /update request has set condition values with which the
\* evaluation of a live tree selects an action, the server eventually posts
\* the start of that action downstream.
C40_Forwards == UpdateSelects ~> Forwarded

====
